---------------------------- MODULE Spec2Model ----------------------------
(***************************************************************************)
(* Model of the contract field extractor (contract_extraction.py) and of    *)
(* the OCR run that feeds it (contract_ocr_pipeline.py).                   *)
(*                                                                         *)
(* A Python str is a sequence of characters; a character is a one-letter   *)
(* string, and a non-ASCII character is written as its code point:         *)
(*   u7532 u65B9 = "Party A" label   u4E59 u65B9 = "Party B" label        *)
(*   u5408 u540C u91D1 u989D = "contract amount"   u91D1 u989D = "amount"  *)
(*   u7B7E u7F72 u65E5 u671F = "signature date"                            *)
(*   u751F u6548 u65E5 u671F = "effective date"                            *)
(*   u5230 u671F u65E5 u671F = "expiry date"                               *)
(*   u6709 u6548 u671F u81F3 = "valid until"                               *)
(*   u7EC8 u6B62 u65E5 u671F = "termination date"                          *)
(*   u5E74 u6708 u65E5 = year, month, day     u4E3A = "is"                 *)
(*   uFF1A uFF0C uFF1B u3002 = full-width colon, comma, semicolon, stop    *)
(*   u2013 = en dash                                                       *)
(* None is the one-element sequence <<"None">>, which is no str.           *)
(* Of Python's whitespace and line breaks the texts hold " ", "\t", "\n". *)
(* Of the cased letters outside ASCII the texts hold those that             *)
(* re.IGNORECASE or str.lower() relates to an ASCII letter:                 *)
(*   u0130 = capital I with dot      u0131 = dotless i                      *)
(*   u017F = long s                  u212A = Kelvin sign                    *)
(* (u0307 = combining dot above, which str.lower() puts after the i of      *)
(* u0130).  The digits are all of Unicode's decimal digits.                 *)
(* uD800 to uDFFF are the surrogates, which a str can hold alone and UTF-8  *)
(* does not encode.                                                         *)
(* A str and a Mapping behave as Python's own do: their methods do not      *)
(* raise.  The file system makes every directory and file it is asked for   *)
(* under a name it can take: a write fails for the value written alone.     *)
(* The events of a run are the calls of close and extract_contract_fields   *)
(* and the file writes that were completed.                                 *)
(***************************************************************************)
EXTENDS Integers, Sequences, FiniteSets, TLC

VARIABLES
    segs,       \* the segment list the caller holds
    hdrOrder,   \* iteration order of each label set of _TABLE_HEADERS
    pc,         \* position of the current call of extract_contract_fields
    texts,      \* local texts
    combined,   \* local combined
    result,     \* local result, an ExtractionResult
    bi,         \* index of the text the table loop is at (1-based)
    li,         \* index of the line _extract_from_tables is at (idx + 1)
    ki,         \* index of the key the fallback loop is at (1-based)
    ret,        \* outcome of the current call
    prev,       \* outcome of the call before it
    arg,        \* the argument markdown_segments of the current call
    call        \* which call it is: "none", "first", "same", "anew", "joined"

\* run_contract_ocr (contract_ocr_pipeline.py)
VARIABLES
    opc,                \* position of the call of run_contract_ocr
    pipeline,           \* the PaddleOCRVL object: "none", "open", "closed"
    results,            \* what pipeline.predict yields, one object per page
    ri,                 \* number of the result the loop of line 162 is at
    markdown_segments,  \* local markdown_segments
    raw_payloads,       \* local raw_payloads
    input_paths,        \* local input_paths, the paths as str
    output_dir,         \* "falsy": None or empty, "dir": a directory path,
                        \* "bad": a truthy value no directory is made of
    closes,             \* how often pipeline.close() has been called
    exc,                \* where the exception the run ends with was raised,
                        \* "none" if nowhere
    events,             \* close, extraction and file writes in their order
    extracted_fields,   \* local extracted_fields
    wi,                 \* index the write loops of lines 185 and 197 are at
    oret                \* outcome of run_contract_ocr

ocrVars == <<opc, pipeline, results, ri, markdown_segments, raw_payloads, input_paths, output_dir,
             closes, exc, events, extracted_fields, wi, oret>>

exVars == <<segs, hdrOrder, pc, texts, combined, result, bi, li, ki, ret, prev, arg, call>>

vars == <<exVars, ocrVars>>

\* ------------------------------------------------------------------ bounds

MaxSegs == 2

\* ----------------------------------------------------------------- Python str

None == <<"None">>

Whitespace == {" ", "\n", "\t"}

UpperCase == <<"A","B","C","D","E","F","G","H","I","J","K","L","M",
               "N","O","P","Q","R","S","T","U","V","W","X","Y","Z">>

LowerCase == <<"a","b","c","d","e","f","g","h","i","j","k","l","m",
               "n","o","p","q","r","s","t","u","v","w","x","y","z">>

\* the surrogates, which no UTF-8 text holds
Surrogates ==
    {
      "uD800", "uD801", "uD802", "uD803", "uD804", "uD805", "uD806", "uD807",
      "uD808", "uD809", "uD80A", "uD80B", "uD80C", "uD80D", "uD80E", "uD80F",
      "uD810", "uD811", "uD812", "uD813", "uD814", "uD815", "uD816", "uD817",
      "uD818", "uD819", "uD81A", "uD81B", "uD81C", "uD81D", "uD81E", "uD81F",
      "uD820", "uD821", "uD822", "uD823", "uD824", "uD825", "uD826", "uD827",
      "uD828", "uD829", "uD82A", "uD82B", "uD82C", "uD82D", "uD82E", "uD82F",
      "uD830", "uD831", "uD832", "uD833", "uD834", "uD835", "uD836", "uD837",
      "uD838", "uD839", "uD83A", "uD83B", "uD83C", "uD83D", "uD83E", "uD83F",
      "uD840", "uD841", "uD842", "uD843", "uD844", "uD845", "uD846", "uD847",
      "uD848", "uD849", "uD84A", "uD84B", "uD84C", "uD84D", "uD84E", "uD84F",
      "uD850", "uD851", "uD852", "uD853", "uD854", "uD855", "uD856", "uD857",
      "uD858", "uD859", "uD85A", "uD85B", "uD85C", "uD85D", "uD85E", "uD85F",
      "uD860", "uD861", "uD862", "uD863", "uD864", "uD865", "uD866", "uD867",
      "uD868", "uD869", "uD86A", "uD86B", "uD86C", "uD86D", "uD86E", "uD86F",
      "uD870", "uD871", "uD872", "uD873", "uD874", "uD875", "uD876", "uD877",
      "uD878", "uD879", "uD87A", "uD87B", "uD87C", "uD87D", "uD87E", "uD87F",
      "uD880", "uD881", "uD882", "uD883", "uD884", "uD885", "uD886", "uD887",
      "uD888", "uD889", "uD88A", "uD88B", "uD88C", "uD88D", "uD88E", "uD88F",
      "uD890", "uD891", "uD892", "uD893", "uD894", "uD895", "uD896", "uD897",
      "uD898", "uD899", "uD89A", "uD89B", "uD89C", "uD89D", "uD89E", "uD89F",
      "uD8A0", "uD8A1", "uD8A2", "uD8A3", "uD8A4", "uD8A5", "uD8A6", "uD8A7",
      "uD8A8", "uD8A9", "uD8AA", "uD8AB", "uD8AC", "uD8AD", "uD8AE", "uD8AF",
      "uD8B0", "uD8B1", "uD8B2", "uD8B3", "uD8B4", "uD8B5", "uD8B6", "uD8B7",
      "uD8B8", "uD8B9", "uD8BA", "uD8BB", "uD8BC", "uD8BD", "uD8BE", "uD8BF",
      "uD8C0", "uD8C1", "uD8C2", "uD8C3", "uD8C4", "uD8C5", "uD8C6", "uD8C7",
      "uD8C8", "uD8C9", "uD8CA", "uD8CB", "uD8CC", "uD8CD", "uD8CE", "uD8CF",
      "uD8D0", "uD8D1", "uD8D2", "uD8D3", "uD8D4", "uD8D5", "uD8D6", "uD8D7",
      "uD8D8", "uD8D9", "uD8DA", "uD8DB", "uD8DC", "uD8DD", "uD8DE", "uD8DF",
      "uD8E0", "uD8E1", "uD8E2", "uD8E3", "uD8E4", "uD8E5", "uD8E6", "uD8E7",
      "uD8E8", "uD8E9", "uD8EA", "uD8EB", "uD8EC", "uD8ED", "uD8EE", "uD8EF",
      "uD8F0", "uD8F1", "uD8F2", "uD8F3", "uD8F4", "uD8F5", "uD8F6", "uD8F7",
      "uD8F8", "uD8F9", "uD8FA", "uD8FB", "uD8FC", "uD8FD", "uD8FE", "uD8FF",
      "uD900", "uD901", "uD902", "uD903", "uD904", "uD905", "uD906", "uD907",
      "uD908", "uD909", "uD90A", "uD90B", "uD90C", "uD90D", "uD90E", "uD90F",
      "uD910", "uD911", "uD912", "uD913", "uD914", "uD915", "uD916", "uD917",
      "uD918", "uD919", "uD91A", "uD91B", "uD91C", "uD91D", "uD91E", "uD91F",
      "uD920", "uD921", "uD922", "uD923", "uD924", "uD925", "uD926", "uD927",
      "uD928", "uD929", "uD92A", "uD92B", "uD92C", "uD92D", "uD92E", "uD92F",
      "uD930", "uD931", "uD932", "uD933", "uD934", "uD935", "uD936", "uD937",
      "uD938", "uD939", "uD93A", "uD93B", "uD93C", "uD93D", "uD93E", "uD93F",
      "uD940", "uD941", "uD942", "uD943", "uD944", "uD945", "uD946", "uD947",
      "uD948", "uD949", "uD94A", "uD94B", "uD94C", "uD94D", "uD94E", "uD94F",
      "uD950", "uD951", "uD952", "uD953", "uD954", "uD955", "uD956", "uD957",
      "uD958", "uD959", "uD95A", "uD95B", "uD95C", "uD95D", "uD95E", "uD95F",
      "uD960", "uD961", "uD962", "uD963", "uD964", "uD965", "uD966", "uD967",
      "uD968", "uD969", "uD96A", "uD96B", "uD96C", "uD96D", "uD96E", "uD96F",
      "uD970", "uD971", "uD972", "uD973", "uD974", "uD975", "uD976", "uD977",
      "uD978", "uD979", "uD97A", "uD97B", "uD97C", "uD97D", "uD97E", "uD97F",
      "uD980", "uD981", "uD982", "uD983", "uD984", "uD985", "uD986", "uD987",
      "uD988", "uD989", "uD98A", "uD98B", "uD98C", "uD98D", "uD98E", "uD98F",
      "uD990", "uD991", "uD992", "uD993", "uD994", "uD995", "uD996", "uD997",
      "uD998", "uD999", "uD99A", "uD99B", "uD99C", "uD99D", "uD99E", "uD99F",
      "uD9A0", "uD9A1", "uD9A2", "uD9A3", "uD9A4", "uD9A5", "uD9A6", "uD9A7",
      "uD9A8", "uD9A9", "uD9AA", "uD9AB", "uD9AC", "uD9AD", "uD9AE", "uD9AF",
      "uD9B0", "uD9B1", "uD9B2", "uD9B3", "uD9B4", "uD9B5", "uD9B6", "uD9B7",
      "uD9B8", "uD9B9", "uD9BA", "uD9BB", "uD9BC", "uD9BD", "uD9BE", "uD9BF",
      "uD9C0", "uD9C1", "uD9C2", "uD9C3", "uD9C4", "uD9C5", "uD9C6", "uD9C7",
      "uD9C8", "uD9C9", "uD9CA", "uD9CB", "uD9CC", "uD9CD", "uD9CE", "uD9CF",
      "uD9D0", "uD9D1", "uD9D2", "uD9D3", "uD9D4", "uD9D5", "uD9D6", "uD9D7",
      "uD9D8", "uD9D9", "uD9DA", "uD9DB", "uD9DC", "uD9DD", "uD9DE", "uD9DF",
      "uD9E0", "uD9E1", "uD9E2", "uD9E3", "uD9E4", "uD9E5", "uD9E6", "uD9E7",
      "uD9E8", "uD9E9", "uD9EA", "uD9EB", "uD9EC", "uD9ED", "uD9EE", "uD9EF",
      "uD9F0", "uD9F1", "uD9F2", "uD9F3", "uD9F4", "uD9F5", "uD9F6", "uD9F7",
      "uD9F8", "uD9F9", "uD9FA", "uD9FB", "uD9FC", "uD9FD", "uD9FE", "uD9FF",
      "uDA00", "uDA01", "uDA02", "uDA03", "uDA04", "uDA05", "uDA06", "uDA07",
      "uDA08", "uDA09", "uDA0A", "uDA0B", "uDA0C", "uDA0D", "uDA0E", "uDA0F",
      "uDA10", "uDA11", "uDA12", "uDA13", "uDA14", "uDA15", "uDA16", "uDA17",
      "uDA18", "uDA19", "uDA1A", "uDA1B", "uDA1C", "uDA1D", "uDA1E", "uDA1F",
      "uDA20", "uDA21", "uDA22", "uDA23", "uDA24", "uDA25", "uDA26", "uDA27",
      "uDA28", "uDA29", "uDA2A", "uDA2B", "uDA2C", "uDA2D", "uDA2E", "uDA2F",
      "uDA30", "uDA31", "uDA32", "uDA33", "uDA34", "uDA35", "uDA36", "uDA37",
      "uDA38", "uDA39", "uDA3A", "uDA3B", "uDA3C", "uDA3D", "uDA3E", "uDA3F",
      "uDA40", "uDA41", "uDA42", "uDA43", "uDA44", "uDA45", "uDA46", "uDA47",
      "uDA48", "uDA49", "uDA4A", "uDA4B", "uDA4C", "uDA4D", "uDA4E", "uDA4F",
      "uDA50", "uDA51", "uDA52", "uDA53", "uDA54", "uDA55", "uDA56", "uDA57",
      "uDA58", "uDA59", "uDA5A", "uDA5B", "uDA5C", "uDA5D", "uDA5E", "uDA5F",
      "uDA60", "uDA61", "uDA62", "uDA63", "uDA64", "uDA65", "uDA66", "uDA67",
      "uDA68", "uDA69", "uDA6A", "uDA6B", "uDA6C", "uDA6D", "uDA6E", "uDA6F",
      "uDA70", "uDA71", "uDA72", "uDA73", "uDA74", "uDA75", "uDA76", "uDA77",
      "uDA78", "uDA79", "uDA7A", "uDA7B", "uDA7C", "uDA7D", "uDA7E", "uDA7F",
      "uDA80", "uDA81", "uDA82", "uDA83", "uDA84", "uDA85", "uDA86", "uDA87",
      "uDA88", "uDA89", "uDA8A", "uDA8B", "uDA8C", "uDA8D", "uDA8E", "uDA8F",
      "uDA90", "uDA91", "uDA92", "uDA93", "uDA94", "uDA95", "uDA96", "uDA97",
      "uDA98", "uDA99", "uDA9A", "uDA9B", "uDA9C", "uDA9D", "uDA9E", "uDA9F",
      "uDAA0", "uDAA1", "uDAA2", "uDAA3", "uDAA4", "uDAA5", "uDAA6", "uDAA7",
      "uDAA8", "uDAA9", "uDAAA", "uDAAB", "uDAAC", "uDAAD", "uDAAE", "uDAAF",
      "uDAB0", "uDAB1", "uDAB2", "uDAB3", "uDAB4", "uDAB5", "uDAB6", "uDAB7",
      "uDAB8", "uDAB9", "uDABA", "uDABB", "uDABC", "uDABD", "uDABE", "uDABF",
      "uDAC0", "uDAC1", "uDAC2", "uDAC3", "uDAC4", "uDAC5", "uDAC6", "uDAC7",
      "uDAC8", "uDAC9", "uDACA", "uDACB", "uDACC", "uDACD", "uDACE", "uDACF",
      "uDAD0", "uDAD1", "uDAD2", "uDAD3", "uDAD4", "uDAD5", "uDAD6", "uDAD7",
      "uDAD8", "uDAD9", "uDADA", "uDADB", "uDADC", "uDADD", "uDADE", "uDADF",
      "uDAE0", "uDAE1", "uDAE2", "uDAE3", "uDAE4", "uDAE5", "uDAE6", "uDAE7",
      "uDAE8", "uDAE9", "uDAEA", "uDAEB", "uDAEC", "uDAED", "uDAEE", "uDAEF",
      "uDAF0", "uDAF1", "uDAF2", "uDAF3", "uDAF4", "uDAF5", "uDAF6", "uDAF7",
      "uDAF8", "uDAF9", "uDAFA", "uDAFB", "uDAFC", "uDAFD", "uDAFE", "uDAFF",
      "uDB00", "uDB01", "uDB02", "uDB03", "uDB04", "uDB05", "uDB06", "uDB07",
      "uDB08", "uDB09", "uDB0A", "uDB0B", "uDB0C", "uDB0D", "uDB0E", "uDB0F",
      "uDB10", "uDB11", "uDB12", "uDB13", "uDB14", "uDB15", "uDB16", "uDB17",
      "uDB18", "uDB19", "uDB1A", "uDB1B", "uDB1C", "uDB1D", "uDB1E", "uDB1F",
      "uDB20", "uDB21", "uDB22", "uDB23", "uDB24", "uDB25", "uDB26", "uDB27",
      "uDB28", "uDB29", "uDB2A", "uDB2B", "uDB2C", "uDB2D", "uDB2E", "uDB2F",
      "uDB30", "uDB31", "uDB32", "uDB33", "uDB34", "uDB35", "uDB36", "uDB37",
      "uDB38", "uDB39", "uDB3A", "uDB3B", "uDB3C", "uDB3D", "uDB3E", "uDB3F",
      "uDB40", "uDB41", "uDB42", "uDB43", "uDB44", "uDB45", "uDB46", "uDB47",
      "uDB48", "uDB49", "uDB4A", "uDB4B", "uDB4C", "uDB4D", "uDB4E", "uDB4F",
      "uDB50", "uDB51", "uDB52", "uDB53", "uDB54", "uDB55", "uDB56", "uDB57",
      "uDB58", "uDB59", "uDB5A", "uDB5B", "uDB5C", "uDB5D", "uDB5E", "uDB5F",
      "uDB60", "uDB61", "uDB62", "uDB63", "uDB64", "uDB65", "uDB66", "uDB67",
      "uDB68", "uDB69", "uDB6A", "uDB6B", "uDB6C", "uDB6D", "uDB6E", "uDB6F",
      "uDB70", "uDB71", "uDB72", "uDB73", "uDB74", "uDB75", "uDB76", "uDB77",
      "uDB78", "uDB79", "uDB7A", "uDB7B", "uDB7C", "uDB7D", "uDB7E", "uDB7F",
      "uDB80", "uDB81", "uDB82", "uDB83", "uDB84", "uDB85", "uDB86", "uDB87",
      "uDB88", "uDB89", "uDB8A", "uDB8B", "uDB8C", "uDB8D", "uDB8E", "uDB8F",
      "uDB90", "uDB91", "uDB92", "uDB93", "uDB94", "uDB95", "uDB96", "uDB97",
      "uDB98", "uDB99", "uDB9A", "uDB9B", "uDB9C", "uDB9D", "uDB9E", "uDB9F",
      "uDBA0", "uDBA1", "uDBA2", "uDBA3", "uDBA4", "uDBA5", "uDBA6", "uDBA7",
      "uDBA8", "uDBA9", "uDBAA", "uDBAB", "uDBAC", "uDBAD", "uDBAE", "uDBAF",
      "uDBB0", "uDBB1", "uDBB2", "uDBB3", "uDBB4", "uDBB5", "uDBB6", "uDBB7",
      "uDBB8", "uDBB9", "uDBBA", "uDBBB", "uDBBC", "uDBBD", "uDBBE", "uDBBF",
      "uDBC0", "uDBC1", "uDBC2", "uDBC3", "uDBC4", "uDBC5", "uDBC6", "uDBC7",
      "uDBC8", "uDBC9", "uDBCA", "uDBCB", "uDBCC", "uDBCD", "uDBCE", "uDBCF",
      "uDBD0", "uDBD1", "uDBD2", "uDBD3", "uDBD4", "uDBD5", "uDBD6", "uDBD7",
      "uDBD8", "uDBD9", "uDBDA", "uDBDB", "uDBDC", "uDBDD", "uDBDE", "uDBDF",
      "uDBE0", "uDBE1", "uDBE2", "uDBE3", "uDBE4", "uDBE5", "uDBE6", "uDBE7",
      "uDBE8", "uDBE9", "uDBEA", "uDBEB", "uDBEC", "uDBED", "uDBEE", "uDBEF",
      "uDBF0", "uDBF1", "uDBF2", "uDBF3", "uDBF4", "uDBF5", "uDBF6", "uDBF7",
      "uDBF8", "uDBF9", "uDBFA", "uDBFB", "uDBFC", "uDBFD", "uDBFE", "uDBFF",
      "uDC00", "uDC01", "uDC02", "uDC03", "uDC04", "uDC05", "uDC06", "uDC07",
      "uDC08", "uDC09", "uDC0A", "uDC0B", "uDC0C", "uDC0D", "uDC0E", "uDC0F",
      "uDC10", "uDC11", "uDC12", "uDC13", "uDC14", "uDC15", "uDC16", "uDC17",
      "uDC18", "uDC19", "uDC1A", "uDC1B", "uDC1C", "uDC1D", "uDC1E", "uDC1F",
      "uDC20", "uDC21", "uDC22", "uDC23", "uDC24", "uDC25", "uDC26", "uDC27",
      "uDC28", "uDC29", "uDC2A", "uDC2B", "uDC2C", "uDC2D", "uDC2E", "uDC2F",
      "uDC30", "uDC31", "uDC32", "uDC33", "uDC34", "uDC35", "uDC36", "uDC37",
      "uDC38", "uDC39", "uDC3A", "uDC3B", "uDC3C", "uDC3D", "uDC3E", "uDC3F",
      "uDC40", "uDC41", "uDC42", "uDC43", "uDC44", "uDC45", "uDC46", "uDC47",
      "uDC48", "uDC49", "uDC4A", "uDC4B", "uDC4C", "uDC4D", "uDC4E", "uDC4F",
      "uDC50", "uDC51", "uDC52", "uDC53", "uDC54", "uDC55", "uDC56", "uDC57",
      "uDC58", "uDC59", "uDC5A", "uDC5B", "uDC5C", "uDC5D", "uDC5E", "uDC5F",
      "uDC60", "uDC61", "uDC62", "uDC63", "uDC64", "uDC65", "uDC66", "uDC67",
      "uDC68", "uDC69", "uDC6A", "uDC6B", "uDC6C", "uDC6D", "uDC6E", "uDC6F",
      "uDC70", "uDC71", "uDC72", "uDC73", "uDC74", "uDC75", "uDC76", "uDC77",
      "uDC78", "uDC79", "uDC7A", "uDC7B", "uDC7C", "uDC7D", "uDC7E", "uDC7F",
      "uDC80", "uDC81", "uDC82", "uDC83", "uDC84", "uDC85", "uDC86", "uDC87",
      "uDC88", "uDC89", "uDC8A", "uDC8B", "uDC8C", "uDC8D", "uDC8E", "uDC8F",
      "uDC90", "uDC91", "uDC92", "uDC93", "uDC94", "uDC95", "uDC96", "uDC97",
      "uDC98", "uDC99", "uDC9A", "uDC9B", "uDC9C", "uDC9D", "uDC9E", "uDC9F",
      "uDCA0", "uDCA1", "uDCA2", "uDCA3", "uDCA4", "uDCA5", "uDCA6", "uDCA7",
      "uDCA8", "uDCA9", "uDCAA", "uDCAB", "uDCAC", "uDCAD", "uDCAE", "uDCAF",
      "uDCB0", "uDCB1", "uDCB2", "uDCB3", "uDCB4", "uDCB5", "uDCB6", "uDCB7",
      "uDCB8", "uDCB9", "uDCBA", "uDCBB", "uDCBC", "uDCBD", "uDCBE", "uDCBF",
      "uDCC0", "uDCC1", "uDCC2", "uDCC3", "uDCC4", "uDCC5", "uDCC6", "uDCC7",
      "uDCC8", "uDCC9", "uDCCA", "uDCCB", "uDCCC", "uDCCD", "uDCCE", "uDCCF",
      "uDCD0", "uDCD1", "uDCD2", "uDCD3", "uDCD4", "uDCD5", "uDCD6", "uDCD7",
      "uDCD8", "uDCD9", "uDCDA", "uDCDB", "uDCDC", "uDCDD", "uDCDE", "uDCDF",
      "uDCE0", "uDCE1", "uDCE2", "uDCE3", "uDCE4", "uDCE5", "uDCE6", "uDCE7",
      "uDCE8", "uDCE9", "uDCEA", "uDCEB", "uDCEC", "uDCED", "uDCEE", "uDCEF",
      "uDCF0", "uDCF1", "uDCF2", "uDCF3", "uDCF4", "uDCF5", "uDCF6", "uDCF7",
      "uDCF8", "uDCF9", "uDCFA", "uDCFB", "uDCFC", "uDCFD", "uDCFE", "uDCFF",
      "uDD00", "uDD01", "uDD02", "uDD03", "uDD04", "uDD05", "uDD06", "uDD07",
      "uDD08", "uDD09", "uDD0A", "uDD0B", "uDD0C", "uDD0D", "uDD0E", "uDD0F",
      "uDD10", "uDD11", "uDD12", "uDD13", "uDD14", "uDD15", "uDD16", "uDD17",
      "uDD18", "uDD19", "uDD1A", "uDD1B", "uDD1C", "uDD1D", "uDD1E", "uDD1F",
      "uDD20", "uDD21", "uDD22", "uDD23", "uDD24", "uDD25", "uDD26", "uDD27",
      "uDD28", "uDD29", "uDD2A", "uDD2B", "uDD2C", "uDD2D", "uDD2E", "uDD2F",
      "uDD30", "uDD31", "uDD32", "uDD33", "uDD34", "uDD35", "uDD36", "uDD37",
      "uDD38", "uDD39", "uDD3A", "uDD3B", "uDD3C", "uDD3D", "uDD3E", "uDD3F",
      "uDD40", "uDD41", "uDD42", "uDD43", "uDD44", "uDD45", "uDD46", "uDD47",
      "uDD48", "uDD49", "uDD4A", "uDD4B", "uDD4C", "uDD4D", "uDD4E", "uDD4F",
      "uDD50", "uDD51", "uDD52", "uDD53", "uDD54", "uDD55", "uDD56", "uDD57",
      "uDD58", "uDD59", "uDD5A", "uDD5B", "uDD5C", "uDD5D", "uDD5E", "uDD5F",
      "uDD60", "uDD61", "uDD62", "uDD63", "uDD64", "uDD65", "uDD66", "uDD67",
      "uDD68", "uDD69", "uDD6A", "uDD6B", "uDD6C", "uDD6D", "uDD6E", "uDD6F",
      "uDD70", "uDD71", "uDD72", "uDD73", "uDD74", "uDD75", "uDD76", "uDD77",
      "uDD78", "uDD79", "uDD7A", "uDD7B", "uDD7C", "uDD7D", "uDD7E", "uDD7F",
      "uDD80", "uDD81", "uDD82", "uDD83", "uDD84", "uDD85", "uDD86", "uDD87",
      "uDD88", "uDD89", "uDD8A", "uDD8B", "uDD8C", "uDD8D", "uDD8E", "uDD8F",
      "uDD90", "uDD91", "uDD92", "uDD93", "uDD94", "uDD95", "uDD96", "uDD97",
      "uDD98", "uDD99", "uDD9A", "uDD9B", "uDD9C", "uDD9D", "uDD9E", "uDD9F",
      "uDDA0", "uDDA1", "uDDA2", "uDDA3", "uDDA4", "uDDA5", "uDDA6", "uDDA7",
      "uDDA8", "uDDA9", "uDDAA", "uDDAB", "uDDAC", "uDDAD", "uDDAE", "uDDAF",
      "uDDB0", "uDDB1", "uDDB2", "uDDB3", "uDDB4", "uDDB5", "uDDB6", "uDDB7",
      "uDDB8", "uDDB9", "uDDBA", "uDDBB", "uDDBC", "uDDBD", "uDDBE", "uDDBF",
      "uDDC0", "uDDC1", "uDDC2", "uDDC3", "uDDC4", "uDDC5", "uDDC6", "uDDC7",
      "uDDC8", "uDDC9", "uDDCA", "uDDCB", "uDDCC", "uDDCD", "uDDCE", "uDDCF",
      "uDDD0", "uDDD1", "uDDD2", "uDDD3", "uDDD4", "uDDD5", "uDDD6", "uDDD7",
      "uDDD8", "uDDD9", "uDDDA", "uDDDB", "uDDDC", "uDDDD", "uDDDE", "uDDDF",
      "uDDE0", "uDDE1", "uDDE2", "uDDE3", "uDDE4", "uDDE5", "uDDE6", "uDDE7",
      "uDDE8", "uDDE9", "uDDEA", "uDDEB", "uDDEC", "uDDED", "uDDEE", "uDDEF",
      "uDDF0", "uDDF1", "uDDF2", "uDDF3", "uDDF4", "uDDF5", "uDDF6", "uDDF7",
      "uDDF8", "uDDF9", "uDDFA", "uDDFB", "uDDFC", "uDDFD", "uDDFE", "uDDFF",
      "uDE00", "uDE01", "uDE02", "uDE03", "uDE04", "uDE05", "uDE06", "uDE07",
      "uDE08", "uDE09", "uDE0A", "uDE0B", "uDE0C", "uDE0D", "uDE0E", "uDE0F",
      "uDE10", "uDE11", "uDE12", "uDE13", "uDE14", "uDE15", "uDE16", "uDE17",
      "uDE18", "uDE19", "uDE1A", "uDE1B", "uDE1C", "uDE1D", "uDE1E", "uDE1F",
      "uDE20", "uDE21", "uDE22", "uDE23", "uDE24", "uDE25", "uDE26", "uDE27",
      "uDE28", "uDE29", "uDE2A", "uDE2B", "uDE2C", "uDE2D", "uDE2E", "uDE2F",
      "uDE30", "uDE31", "uDE32", "uDE33", "uDE34", "uDE35", "uDE36", "uDE37",
      "uDE38", "uDE39", "uDE3A", "uDE3B", "uDE3C", "uDE3D", "uDE3E", "uDE3F",
      "uDE40", "uDE41", "uDE42", "uDE43", "uDE44", "uDE45", "uDE46", "uDE47",
      "uDE48", "uDE49", "uDE4A", "uDE4B", "uDE4C", "uDE4D", "uDE4E", "uDE4F",
      "uDE50", "uDE51", "uDE52", "uDE53", "uDE54", "uDE55", "uDE56", "uDE57",
      "uDE58", "uDE59", "uDE5A", "uDE5B", "uDE5C", "uDE5D", "uDE5E", "uDE5F",
      "uDE60", "uDE61", "uDE62", "uDE63", "uDE64", "uDE65", "uDE66", "uDE67",
      "uDE68", "uDE69", "uDE6A", "uDE6B", "uDE6C", "uDE6D", "uDE6E", "uDE6F",
      "uDE70", "uDE71", "uDE72", "uDE73", "uDE74", "uDE75", "uDE76", "uDE77",
      "uDE78", "uDE79", "uDE7A", "uDE7B", "uDE7C", "uDE7D", "uDE7E", "uDE7F",
      "uDE80", "uDE81", "uDE82", "uDE83", "uDE84", "uDE85", "uDE86", "uDE87",
      "uDE88", "uDE89", "uDE8A", "uDE8B", "uDE8C", "uDE8D", "uDE8E", "uDE8F",
      "uDE90", "uDE91", "uDE92", "uDE93", "uDE94", "uDE95", "uDE96", "uDE97",
      "uDE98", "uDE99", "uDE9A", "uDE9B", "uDE9C", "uDE9D", "uDE9E", "uDE9F",
      "uDEA0", "uDEA1", "uDEA2", "uDEA3", "uDEA4", "uDEA5", "uDEA6", "uDEA7",
      "uDEA8", "uDEA9", "uDEAA", "uDEAB", "uDEAC", "uDEAD", "uDEAE", "uDEAF",
      "uDEB0", "uDEB1", "uDEB2", "uDEB3", "uDEB4", "uDEB5", "uDEB6", "uDEB7",
      "uDEB8", "uDEB9", "uDEBA", "uDEBB", "uDEBC", "uDEBD", "uDEBE", "uDEBF",
      "uDEC0", "uDEC1", "uDEC2", "uDEC3", "uDEC4", "uDEC5", "uDEC6", "uDEC7",
      "uDEC8", "uDEC9", "uDECA", "uDECB", "uDECC", "uDECD", "uDECE", "uDECF",
      "uDED0", "uDED1", "uDED2", "uDED3", "uDED4", "uDED5", "uDED6", "uDED7",
      "uDED8", "uDED9", "uDEDA", "uDEDB", "uDEDC", "uDEDD", "uDEDE", "uDEDF",
      "uDEE0", "uDEE1", "uDEE2", "uDEE3", "uDEE4", "uDEE5", "uDEE6", "uDEE7",
      "uDEE8", "uDEE9", "uDEEA", "uDEEB", "uDEEC", "uDEED", "uDEEE", "uDEEF",
      "uDEF0", "uDEF1", "uDEF2", "uDEF3", "uDEF4", "uDEF5", "uDEF6", "uDEF7",
      "uDEF8", "uDEF9", "uDEFA", "uDEFB", "uDEFC", "uDEFD", "uDEFE", "uDEFF",
      "uDF00", "uDF01", "uDF02", "uDF03", "uDF04", "uDF05", "uDF06", "uDF07",
      "uDF08", "uDF09", "uDF0A", "uDF0B", "uDF0C", "uDF0D", "uDF0E", "uDF0F",
      "uDF10", "uDF11", "uDF12", "uDF13", "uDF14", "uDF15", "uDF16", "uDF17",
      "uDF18", "uDF19", "uDF1A", "uDF1B", "uDF1C", "uDF1D", "uDF1E", "uDF1F",
      "uDF20", "uDF21", "uDF22", "uDF23", "uDF24", "uDF25", "uDF26", "uDF27",
      "uDF28", "uDF29", "uDF2A", "uDF2B", "uDF2C", "uDF2D", "uDF2E", "uDF2F",
      "uDF30", "uDF31", "uDF32", "uDF33", "uDF34", "uDF35", "uDF36", "uDF37",
      "uDF38", "uDF39", "uDF3A", "uDF3B", "uDF3C", "uDF3D", "uDF3E", "uDF3F",
      "uDF40", "uDF41", "uDF42", "uDF43", "uDF44", "uDF45", "uDF46", "uDF47",
      "uDF48", "uDF49", "uDF4A", "uDF4B", "uDF4C", "uDF4D", "uDF4E", "uDF4F",
      "uDF50", "uDF51", "uDF52", "uDF53", "uDF54", "uDF55", "uDF56", "uDF57",
      "uDF58", "uDF59", "uDF5A", "uDF5B", "uDF5C", "uDF5D", "uDF5E", "uDF5F",
      "uDF60", "uDF61", "uDF62", "uDF63", "uDF64", "uDF65", "uDF66", "uDF67",
      "uDF68", "uDF69", "uDF6A", "uDF6B", "uDF6C", "uDF6D", "uDF6E", "uDF6F",
      "uDF70", "uDF71", "uDF72", "uDF73", "uDF74", "uDF75", "uDF76", "uDF77",
      "uDF78", "uDF79", "uDF7A", "uDF7B", "uDF7C", "uDF7D", "uDF7E", "uDF7F",
      "uDF80", "uDF81", "uDF82", "uDF83", "uDF84", "uDF85", "uDF86", "uDF87",
      "uDF88", "uDF89", "uDF8A", "uDF8B", "uDF8C", "uDF8D", "uDF8E", "uDF8F",
      "uDF90", "uDF91", "uDF92", "uDF93", "uDF94", "uDF95", "uDF96", "uDF97",
      "uDF98", "uDF99", "uDF9A", "uDF9B", "uDF9C", "uDF9D", "uDF9E", "uDF9F",
      "uDFA0", "uDFA1", "uDFA2", "uDFA3", "uDFA4", "uDFA5", "uDFA6", "uDFA7",
      "uDFA8", "uDFA9", "uDFAA", "uDFAB", "uDFAC", "uDFAD", "uDFAE", "uDFAF",
      "uDFB0", "uDFB1", "uDFB2", "uDFB3", "uDFB4", "uDFB5", "uDFB6", "uDFB7",
      "uDFB8", "uDFB9", "uDFBA", "uDFBB", "uDFBC", "uDFBD", "uDFBE", "uDFBF",
      "uDFC0", "uDFC1", "uDFC2", "uDFC3", "uDFC4", "uDFC5", "uDFC6", "uDFC7",
      "uDFC8", "uDFC9", "uDFCA", "uDFCB", "uDFCC", "uDFCD", "uDFCE", "uDFCF",
      "uDFD0", "uDFD1", "uDFD2", "uDFD3", "uDFD4", "uDFD5", "uDFD6", "uDFD7",
      "uDFD8", "uDFD9", "uDFDA", "uDFDB", "uDFDC", "uDFDD", "uDFDE", "uDFDF",
      "uDFE0", "uDFE1", "uDFE2", "uDFE3", "uDFE4", "uDFE5", "uDFE6", "uDFE7",
      "uDFE8", "uDFE9", "uDFEA", "uDFEB", "uDFEC", "uDFED", "uDFEE", "uDFEF",
      "uDFF0", "uDFF1", "uDFF2", "uDFF3", "uDFF4", "uDFF5", "uDFF6", "uDFF7",
      "uDFF8", "uDFF9", "uDFFA", "uDFFB", "uDFFC", "uDFFD", "uDFFE", "uDFFF" }

\* [0-9]
Digits == {"0","1","2","3","4","5","6","7","8","9"}

\* the decimal digits outside ASCII (Unicode 14, category Nd)
OtherDigits ==
    {
      "u0660", "u0661", "u0662", "u0663", "u0664", "u0665", "u0666", "u0667",
      "u0668", "u0669", "u06F0", "u06F1", "u06F2", "u06F3", "u06F4", "u06F5",
      "u06F6", "u06F7", "u06F8", "u06F9", "u07C0", "u07C1", "u07C2", "u07C3",
      "u07C4", "u07C5", "u07C6", "u07C7", "u07C8", "u07C9", "u0966", "u0967",
      "u0968", "u0969", "u096A", "u096B", "u096C", "u096D", "u096E", "u096F",
      "u09E6", "u09E7", "u09E8", "u09E9", "u09EA", "u09EB", "u09EC", "u09ED",
      "u09EE", "u09EF", "u0A66", "u0A67", "u0A68", "u0A69", "u0A6A", "u0A6B",
      "u0A6C", "u0A6D", "u0A6E", "u0A6F", "u0AE6", "u0AE7", "u0AE8", "u0AE9",
      "u0AEA", "u0AEB", "u0AEC", "u0AED", "u0AEE", "u0AEF", "u0B66", "u0B67",
      "u0B68", "u0B69", "u0B6A", "u0B6B", "u0B6C", "u0B6D", "u0B6E", "u0B6F",
      "u0BE6", "u0BE7", "u0BE8", "u0BE9", "u0BEA", "u0BEB", "u0BEC", "u0BED",
      "u0BEE", "u0BEF", "u0C66", "u0C67", "u0C68", "u0C69", "u0C6A", "u0C6B",
      "u0C6C", "u0C6D", "u0C6E", "u0C6F", "u0CE6", "u0CE7", "u0CE8", "u0CE9",
      "u0CEA", "u0CEB", "u0CEC", "u0CED", "u0CEE", "u0CEF", "u0D66", "u0D67",
      "u0D68", "u0D69", "u0D6A", "u0D6B", "u0D6C", "u0D6D", "u0D6E", "u0D6F",
      "u0DE6", "u0DE7", "u0DE8", "u0DE9", "u0DEA", "u0DEB", "u0DEC", "u0DED",
      "u0DEE", "u0DEF", "u0E50", "u0E51", "u0E52", "u0E53", "u0E54", "u0E55",
      "u0E56", "u0E57", "u0E58", "u0E59", "u0ED0", "u0ED1", "u0ED2", "u0ED3",
      "u0ED4", "u0ED5", "u0ED6", "u0ED7", "u0ED8", "u0ED9", "u0F20", "u0F21",
      "u0F22", "u0F23", "u0F24", "u0F25", "u0F26", "u0F27", "u0F28", "u0F29",
      "u1040", "u1041", "u1042", "u1043", "u1044", "u1045", "u1046", "u1047",
      "u1048", "u1049", "u1090", "u1091", "u1092", "u1093", "u1094", "u1095",
      "u1096", "u1097", "u1098", "u1099", "u17E0", "u17E1", "u17E2", "u17E3",
      "u17E4", "u17E5", "u17E6", "u17E7", "u17E8", "u17E9", "u1810", "u1811",
      "u1812", "u1813", "u1814", "u1815", "u1816", "u1817", "u1818", "u1819",
      "u1946", "u1947", "u1948", "u1949", "u194A", "u194B", "u194C", "u194D",
      "u194E", "u194F", "u19D0", "u19D1", "u19D2", "u19D3", "u19D4", "u19D5",
      "u19D6", "u19D7", "u19D8", "u19D9", "u1A80", "u1A81", "u1A82", "u1A83",
      "u1A84", "u1A85", "u1A86", "u1A87", "u1A88", "u1A89", "u1A90", "u1A91",
      "u1A92", "u1A93", "u1A94", "u1A95", "u1A96", "u1A97", "u1A98", "u1A99",
      "u1B50", "u1B51", "u1B52", "u1B53", "u1B54", "u1B55", "u1B56", "u1B57",
      "u1B58", "u1B59", "u1BB0", "u1BB1", "u1BB2", "u1BB3", "u1BB4", "u1BB5",
      "u1BB6", "u1BB7", "u1BB8", "u1BB9", "u1C40", "u1C41", "u1C42", "u1C43",
      "u1C44", "u1C45", "u1C46", "u1C47", "u1C48", "u1C49", "u1C50", "u1C51",
      "u1C52", "u1C53", "u1C54", "u1C55", "u1C56", "u1C57", "u1C58", "u1C59",
      "uA620", "uA621", "uA622", "uA623", "uA624", "uA625", "uA626", "uA627",
      "uA628", "uA629", "uA8D0", "uA8D1", "uA8D2", "uA8D3", "uA8D4", "uA8D5",
      "uA8D6", "uA8D7", "uA8D8", "uA8D9", "uA900", "uA901", "uA902", "uA903",
      "uA904", "uA905", "uA906", "uA907", "uA908", "uA909", "uA9D0", "uA9D1",
      "uA9D2", "uA9D3", "uA9D4", "uA9D5", "uA9D6", "uA9D7", "uA9D8", "uA9D9",
      "uA9F0", "uA9F1", "uA9F2", "uA9F3", "uA9F4", "uA9F5", "uA9F6", "uA9F7",
      "uA9F8", "uA9F9", "uAA50", "uAA51", "uAA52", "uAA53", "uAA54", "uAA55",
      "uAA56", "uAA57", "uAA58", "uAA59", "uABF0", "uABF1", "uABF2", "uABF3",
      "uABF4", "uABF5", "uABF6", "uABF7", "uABF8", "uABF9", "uFF10", "uFF11",
      "uFF12", "uFF13", "uFF14", "uFF15", "uFF16", "uFF17", "uFF18", "uFF19",
      "u104A0", "u104A1", "u104A2", "u104A3", "u104A4", "u104A5", "u104A6", "u104A7",
      "u104A8", "u104A9", "u10D30", "u10D31", "u10D32", "u10D33", "u10D34", "u10D35",
      "u10D36", "u10D37", "u10D38", "u10D39", "u11066", "u11067", "u11068", "u11069",
      "u1106A", "u1106B", "u1106C", "u1106D", "u1106E", "u1106F", "u110F0", "u110F1",
      "u110F2", "u110F3", "u110F4", "u110F5", "u110F6", "u110F7", "u110F8", "u110F9",
      "u11136", "u11137", "u11138", "u11139", "u1113A", "u1113B", "u1113C", "u1113D",
      "u1113E", "u1113F", "u111D0", "u111D1", "u111D2", "u111D3", "u111D4", "u111D5",
      "u111D6", "u111D7", "u111D8", "u111D9", "u112F0", "u112F1", "u112F2", "u112F3",
      "u112F4", "u112F5", "u112F6", "u112F7", "u112F8", "u112F9", "u11450", "u11451",
      "u11452", "u11453", "u11454", "u11455", "u11456", "u11457", "u11458", "u11459",
      "u114D0", "u114D1", "u114D2", "u114D3", "u114D4", "u114D5", "u114D6", "u114D7",
      "u114D8", "u114D9", "u11650", "u11651", "u11652", "u11653", "u11654", "u11655",
      "u11656", "u11657", "u11658", "u11659", "u116C0", "u116C1", "u116C2", "u116C3",
      "u116C4", "u116C5", "u116C6", "u116C7", "u116C8", "u116C9", "u11730", "u11731",
      "u11732", "u11733", "u11734", "u11735", "u11736", "u11737", "u11738", "u11739",
      "u118E0", "u118E1", "u118E2", "u118E3", "u118E4", "u118E5", "u118E6", "u118E7",
      "u118E8", "u118E9", "u11950", "u11951", "u11952", "u11953", "u11954", "u11955",
      "u11956", "u11957", "u11958", "u11959", "u11C50", "u11C51", "u11C52", "u11C53",
      "u11C54", "u11C55", "u11C56", "u11C57", "u11C58", "u11C59", "u11D50", "u11D51",
      "u11D52", "u11D53", "u11D54", "u11D55", "u11D56", "u11D57", "u11D58", "u11D59",
      "u11DA0", "u11DA1", "u11DA2", "u11DA3", "u11DA4", "u11DA5", "u11DA6", "u11DA7",
      "u11DA8", "u11DA9", "u16A60", "u16A61", "u16A62", "u16A63", "u16A64", "u16A65",
      "u16A66", "u16A67", "u16A68", "u16A69", "u16AC0", "u16AC1", "u16AC2", "u16AC3",
      "u16AC4", "u16AC5", "u16AC6", "u16AC7", "u16AC8", "u16AC9", "u16B50", "u16B51",
      "u16B52", "u16B53", "u16B54", "u16B55", "u16B56", "u16B57", "u16B58", "u16B59",
      "u1D7CE", "u1D7CF", "u1D7D0", "u1D7D1", "u1D7D2", "u1D7D3", "u1D7D4", "u1D7D5",
      "u1D7D6", "u1D7D7", "u1D7D8", "u1D7D9", "u1D7DA", "u1D7DB", "u1D7DC", "u1D7DD",
      "u1D7DE", "u1D7DF", "u1D7E0", "u1D7E1", "u1D7E2", "u1D7E3", "u1D7E4", "u1D7E5",
      "u1D7E6", "u1D7E7", "u1D7E8", "u1D7E9", "u1D7EA", "u1D7EB", "u1D7EC", "u1D7ED",
      "u1D7EE", "u1D7EF", "u1D7F0", "u1D7F1", "u1D7F2", "u1D7F3", "u1D7F4", "u1D7F5",
      "u1D7F6", "u1D7F7", "u1D7F8", "u1D7F9", "u1D7FA", "u1D7FB", "u1D7FC", "u1D7FD",
      "u1D7FE", "u1D7FF", "u1E140", "u1E141", "u1E142", "u1E143", "u1E144", "u1E145",
      "u1E146", "u1E147", "u1E148", "u1E149", "u1E2F0", "u1E2F1", "u1E2F2", "u1E2F3",
      "u1E2F4", "u1E2F5", "u1E2F6", "u1E2F7", "u1E2F8", "u1E2F9", "u1E950", "u1E951",
      "u1E952", "u1E953", "u1E954", "u1E955", "u1E956", "u1E957", "u1E958", "u1E959",
      "u1FBF0", "u1FBF1", "u1FBF2", "u1FBF3", "u1FBF4", "u1FBF5", "u1FBF6", "u1FBF7",
      "u1FBF8", "u1FBF9" }

\* \d of a str pattern: every decimal digit
DecimalDigits == Digits \cup OtherDigits

Letters == {UpperCase[i] : i \in 1..26} \cup {LowerCase[i] : i \in 1..26}

\* the lower-case and the upper-case form of a letter
ToLower == [c \in Letters |-> IF \E i \in 1..26 : UpperCase[i] = c
                               THEN LowerCase[CHOOSE i \in 1..26 : UpperCase[i] = c] ELSE c]

ToUpper == [c \in Letters |-> IF \E i \in 1..26 : LowerCase[i] = c
                               THEN UpperCase[CHOOSE i \in 1..26 : LowerCase[i] = c] ELSE c]

\* the lower-case form of a character that has one of one character
LowerChar(c) == IF c \in Letters THEN ToLower[c] ELSE IF c = "u212A" THEN "k" ELSE c

UpperChar(c) == IF c \in Letters THEN ToUpper[c] ELSE c

\* str.lower() of a text with a capital I with dot, which turns into two
\* characters
RECURSIVE LowerDotted(_)
LowerDotted(s) ==
    IF s = <<>> THEN <<>>
    ELSE (IF Head(s) = "u0130" THEN <<"i", "u0307">> ELSE <<LowerChar(Head(s))>>)
         \o LowerDotted(Tail(s))

\* str.lower()
Lower(s) ==
    IF \E i \in 1..Len(s) : s[i] = "u0130" THEN LowerDotted(s)
    ELSE [i \in 1..Len(s) |-> LowerChar(s[i])]

MinOf(S) == CHOOSE x \in S : \A y \in S : x <= y

MaxOf(S) == CHOOSE x \in S : \A y \in S : x >= y

\* str.strip()
Strip(s) ==
    LET keep == {i \in 1..Len(s) : s[i] \notin Whitespace}
    IN  IF keep = {} THEN <<>> ELSE SubSeq(s, MinOf(keep), MaxOf(keep))

\* str.split(sep) for a one-character sep
RECURSIVE Split(_, _)
Split(s, sep) ==
    LET at == {i \in 1..Len(s) : s[i] = sep}
    IN  IF at = {} THEN <<s>>
        ELSE <<SubSeq(s, 1, MinOf(at) - 1)>>
             \o Split(SubSeq(s, MinOf(at) + 1, Len(s)), sep)

\* str.splitlines(): no empty last line for a text ending in a line break
SplitLines(s) ==
    LET parts == Split(s, "\n")
    IN  IF parts[Len(parts)] = <<>> THEN SubSeq(parts, 1, Len(parts) - 1) ELSE parts

\* sub in s
Contains(sub, s) ==
    \E i \in 0..(Len(s) - Len(sub)) : SubSeq(s, i + 1, i + Len(sub)) = sub

\* "\n".join(ts)
RECURSIVE Join(_)
Join(ts) ==
    IF Len(ts) = 0 THEN <<>>
    ELSE IF Len(ts) = 1 THEN ts[1]
    ELSE ts[1] \o <<"\n">> \o Join(Tail(ts))

\* bool(s) of a str or None
Truthy(v) == v # None /\ v # <<>>

\* ------------------------------------------------------------ the two tables

Keys == <<"party_a", "party_b", "contract_amount", "sign_date", "effective_date", "termination_date">>

KeySet == {Keys[i] : i \in 1..Len(Keys)}

\* _TABLE_HEADERS, each label set in the order it is written
TABLE_HEADERS ==
    [party_a          |-> <<<<"u7532", "u65B9">>, <<"p", "a", "r", "t", "y", " ", "a">>>>,
     party_b          |-> <<<<"u4E59", "u65B9">>, <<"p", "a", "r", "t", "y", " ", "b">>>>,
     contract_amount  |-> <<<<"u5408", "u540C", "u91D1", "u989D">>, <<"t", "o", "t", "a", "l", " ", "a", "m", "o", "u", "n", "t">>, <<"a", "m", "o", "u", "n", "t">>>>,
     sign_date        |-> <<<<"u7B7E", "u7F72", "u65E5", "u671F">>, <<"s", "i", "g", "n", "a", "t", "u", "r", "e", " ", "d", "a", "t", "e">>>>,
     effective_date   |-> <<<<"u751F", "u6548", "u65E5", "u671F">>, <<"e", "f", "f", "e", "c", "t", "i", "v", "e", " ", "d", "a", "t", "e">>>>,
     termination_date |-> <<<<"u5230", "u671F", "u65E5", "u671F">>, <<"u6709", "u6548", "u671F", "u81F3">>, <<"e", "x", "p", "i", "r", "y", " ", "d", "a", "t", "e">>, <<"t", "e", "r", "m", "i", "n", "a", "t", "i", "o", "n", " ", "d", "a", "t", "e">>>>]

\* q without its element number i
Without(q, i) == SubSeq(q, 1, i - 1) \o SubSeq(q, i + 1, Len(q))

\* the orders the elements of q can be put in
RECURSIVE Perms(_)
Perms(q) ==
    IF q = <<>> THEN {<<>>}
    ELSE UNION {{<<q[i]>> \o p : p \in Perms(Without(q, i))} : i \in 1..Len(q)}

\* the dicts that hold an order of its labels for every key
OrderDicts(P) ==
    {[party_a |-> a, party_b |-> b, contract_amount |-> c, sign_date |-> d,
      effective_date |-> e, termination_date |-> f] :
        a \in P["party_a"], b \in P["party_b"], c \in P["contract_amount"],
        d \in P["sign_date"], e \in P["effective_date"], f \in P["termination_date"]}

\* A label set is a Python set: its iteration order is fixed when the module
\* is loaded, is not the written order and changes with the hash seed.
\* Every order of every label set is followed.
HeaderOrders == OrderDicts([k \in KeySet |-> Perms(TABLE_HEADERS[k])])

\* {h.lower() for hs in _TABLE_HEADERS.values() for h in hs}
AllHeaders ==
    UNION {{Lower(TABLE_HEADERS[k][i]) : i \in 1..Len(TABLE_HEADERS[k])} : k \in KeySet}

\* -------------------------------------------------------- ExtractionResult

\* ExtractionResult(): every field None, no matched source
NewResult == [fields |-> [k \in KeySet |-> None], matched_sources |-> [k \in {} |-> <<>>]]

\* update without the strip and the test for an empty value
UpdateRaw(res, key, value, source) ==
    [fields |-> [res.fields EXCEPT ![key] = value],
     matched_sources |->
         [k \in (DOMAIN res.matched_sources) \cup {key} |->
             IF k = key THEN source ELSE res.matched_sources[k]]]

\* update recording the source before the stripped value is tested
UpdateSourceFirst(res, key, value, source) ==
    IF value # <<>>
    THEN [fields |-> IF Strip(value) # <<>> THEN [res.fields EXCEPT ![key] = Strip(value)]
                     ELSE res.fields,
          matched_sources |->
              [k \in (DOMAIN res.matched_sources) \cup {key} |->
                  IF k = key THEN Strip(source) ELSE res.matched_sources[k]]]
    ELSE res

\* ExtractionResult.update
Update(res, key, value, source) ==
    IF value # <<>> /\ Strip(value) # <<>>
    THEN [fields |-> [res.fields EXCEPT ![key] = Strip(value)],
          matched_sources |->
              [k \in (DOMAIN res.matched_sources) \cup {key} |->
                  IF k = key THEN Strip(source) ELSE res.matched_sources[k]]]
    ELSE res

\* ExtractionResult.to_dict
ToDict(res) == res.fields

\* ------------------------------------------------------------- table scan

\* the value None of _parse_markdown_table, which is no list of cells
NoRow == <<None>>

\* the cells of parts that are not empty, in order
RECURSIVE NonEmpty(_)
NonEmpty(parts) ==
    IF parts = <<>> THEN <<>>
    ELSE IF Head(parts) = <<>> THEN NonEmpty(Tail(parts))
    ELSE <<Head(parts)>> \o NonEmpty(Tail(parts))

\* [cell.strip() for cell in line.strip().split("|")]
Parts(line) ==
    LET raw == Split(Strip(line), "|")
    IN  [i \in 1..Len(raw) |-> Strip(raw[i])]

\* _parse_markdown_table with the limit of 3 put on the cells that are not empty
ParseMarkdownTableCells(line) ==
    IF \A i \in 1..Len(line) : line[i] # "|" THEN NoRow
    ELSE IF Len(NonEmpty(Parts(line))) < 3 THEN NoRow
    ELSE NonEmpty(Parts(line))

\* _parse_markdown_table
ParseMarkdownTable(line) ==
    IF \A i \in 1..Len(line) : line[i] # "|" THEN NoRow
    ELSE IF Len(Parts(line)) < 3 THEN NoRow
    ELSE NonEmpty(Parts(line))

\* `not row`
NotRow(row) == row = NoRow \/ row = <<>>

LowerCells(row) == [i \in 1..Len(row) |-> Lower(row[i])]

\* the inner loop of the row-oriented mode: some label of the key is in the first cell
LabelInFirstCell(ord, key, lowered) ==
    \E i \in 1..Len(ord[key]) : Contains(Lower(ord[key][i]), lowered[1])

\* the row-oriented mode of one line, from key number k on (the loops test
\* upd against res so that each round is evaluated before the next begins)
RECURSIVE RowKeys(_, _, _, _, _)
RowKeys(res, ord, row, line, k) ==
    IF k > Len(Keys) THEN res
    ELSE LET key == Keys[k]
             upd == IF LabelInFirstCell(ord, key, LowerCells(row)) /\ Len(row) > 1
                    THEN Update(res, key, row[2], line)
                    ELSE res
         IN  IF upd = res THEN RowKeys(res, ord, row, line, k + 1)
             ELSE RowKeys(upd, ord, row, line, k + 1)

\* header_positions.get(label): the last column holding the label, 0 for None
HeaderPosition(lowered, label) ==
    LET at == {p \in 1..Len(lowered) : lowered[p] = label}
    IN  IF at = {} THEN 0 ELSE MaxOf(at)

\* the header/data mode for one key, from label number h of its set on
RECURSIVE HeaderLabels(_, _, _, _, _, _, _)
HeaderLabels(res, labels, key, lowered, lines, l, h) ==
    IF h > Len(labels) THEN res
    ELSE LET pos == HeaderPosition(lowered, Lower(labels[h]))
             next_row == IF l + 1 <= Len(lines) THEN ParseMarkdownTable(lines[l + 1]) ELSE NoRow
             upd == IF pos # 0 /\ l + 1 <= Len(lines) /\ ~NotRow(next_row) /\ Len(next_row) >= pos
                    THEN Update(res, key, next_row[pos], lines[l + 1])
                    ELSE res
         IN  IF upd = res THEN HeaderLabels(res, labels, key, lowered, lines, l, h + 1)
             ELSE HeaderLabels(upd, labels, key, lowered, lines, l, h + 1)

\* the header/data mode of line number l (idx + 1), from key number k on
RECURSIVE HeaderKeys(_, _, _, _, _, _)
HeaderKeys(res, ord, lowered, lines, l, k) ==
    IF k > Len(Keys) THEN res
    ELSE LET upd == HeaderLabels(res, ord[Keys[k]], Keys[k], lowered, lines, l, 1)
         IN  IF upd = res THEN HeaderKeys(res, ord, lowered, lines, l, k + 1)
             ELSE HeaderKeys(upd, ord, lowered, lines, l, k + 1)

\* the guard of the header/data mode without its test of idx
HeaderGuardAnyLine(l, row) ==
    {LowerCells(row)[i] : i \in 1..Len(row)} \cap AllHeaders # {}

\* the guard of the header/data mode for line number l (idx + 1) with cells row
HeaderGuard(l, row) ==
    l = 1 /\ {LowerCells(row)[i] : i \in 1..Len(row)} \cap AllHeaders # {}

\* ------------------------------------------------------ segment normaliser

Absent == <<"absent">>          \* the mapping has no such key

NonStr == <<"int">>             \* a value that is no str and is truthy, such as 5

StrSeg(t) == [kind |-> "str", text |-> t, markdown_text |-> Absent, markdown |-> Absent]

MapSeg(mt, md) == [kind |-> "Mapping", text |-> Absent, markdown_text |-> mt, markdown |-> md]

IntSeg == [kind |-> "int", text |-> Absent, markdown_text |-> Absent, markdown |-> Absent]

\* isinstance(v, str) of a value of a mapping; None stands for the values
\* that are no str and are falsy: None, 0, [], False
IsStr(v) == v # Absent /\ v # NonStr /\ v # None

\* _normalise_markdown_segments taking a str alone for a segment
NormaliseStrOnly(ss) ==
    [raised |-> \E i \in 1..Len(ss) : ss[i].kind # "str",
     texts |-> IF \E i \in 1..Len(ss) : ss[i].kind # "str" THEN <<>>
               ELSE [i \in 1..Len(ss) |-> ss[i].text]]

\* _normalise_markdown_segments: raised tells the TypeError, texts the list returned
RECURSIVE NormaliseMarkdownSegments(_)
NormaliseMarkdownSegments(ss) ==
    IF ss = <<>> THEN [raised |-> FALSE, texts |-> <<>>]
    ELSE LET seg == Head(ss)
             rest == NormaliseMarkdownSegments(Tail(ss))
             here == IF seg.kind = "str" THEN <<seg.text>>
                     ELSE IF IsStr(seg.markdown_text) THEN <<seg.markdown_text>>
                     ELSE IF IsStr(seg.markdown) THEN <<seg.markdown>>
                     ELSE <<>>
         IN  IF seg.kind \notin {"str", "Mapping"} THEN [raised |-> TRUE, texts |-> <<>>]
             ELSE [raised |-> rest.raised,
                   texts |-> IF rest.raised THEN <<>> ELSE here \o rest.texts]

\* ------------------------------------------------- re.search, re.IGNORECASE

\* the characters outside ASCII that re.IGNORECASE takes for an ASCII letter
CaseFixes == [u0130 |-> "i", u0131 |-> "i", u017F |-> "s", u212A |-> "k"]

\* the form in which re.IGNORECASE compares a character
Fold(c) ==
    IF c \in Letters THEN ToLower[c]
    ELSE IF c \in DOMAIN CaseFixes THEN CaseFixes[c]
    ELSE c

FoldStr(s) == [i \in 1..Len(s) |-> Fold(s[i])]

\* re.IGNORECASE: a class holds every character that compares equal to one
\* of its own
IgnoreCase(set) ==
    set \cup {c \in Letters \cup DOMAIN CaseFixes : \E x \in set : Fold(x) = Fold(c)}

\* One item of a pattern: a character class repeated lo..hi times, greedily
\* (hi = -1: no upper limit), a literal string, or an alternation of item
\* sequences.
Cls(set, neg, lo, hi) ==
    [t |-> "cls", set |-> IgnoreCase(set), neg |-> neg, lo |-> lo, hi |-> hi]

Alt(alts) == [t |-> "alt", alts |-> alts]

\* a literal string, matched without regard to case
Lit(s) == <<[t |-> "lit", s |-> FoldStr(s)]>>

WsStar == Cls(Whitespace, FALSE, 0, -1)     \* \s*

WsPlus == Cls(Whitespace, FALSE, 1, -1)     \* \s+

\* c is in the class of item
InClass(c, item) == (c \in item.set) # item.neg

\* how many characters of s from position i on the class item takes at most,
\* n of them taken already
RECURSIVE RunLen(_, _, _, _)
RunLen(item, s, i, n) ==
    IF (item.hi = -1 \/ n < item.hi) /\ i + n <= Len(s) /\ InClass(s[i + n], item)
    THEN RunLen(item, s, i, n + 1)
    ELSE n

\* The positions at which a match of items starting at position i of s can
\* end, in the order a backtracking matcher tries them (greedy first).
RECURSIVE Ends(_, _, _), ItemEnds(_, _, _), AltEnds(_, _, _), FlatEnds(_, _, _)
ItemEnds(item, s, i) ==
    IF item.t = "cls"
    THEN LET n == RunLen(item, s, i, 0)
         IN  IF n < item.lo THEN <<>> ELSE [x \in 1..(n - item.lo + 1) |-> i + n - (x - 1)]
    ELSE IF item.t = "lit"
    THEN LET j == i + Len(item.s)
         IN  IF j - 1 <= Len(s) /\ FoldStr(SubSeq(s, i, j - 1)) = item.s THEN <<j>> ELSE <<>>
    ELSE AltEnds(item.alts, s, i)

AltEnds(alts, s, i) ==
    IF alts = <<>> THEN <<>> ELSE Ends(Head(alts), s, i) \o AltEnds(Tail(alts), s, i)

FlatEnds(js, items, s) ==
    IF js = <<>> \/ items = <<>> THEN js
    ELSE Ends(items, s, Head(js)) \o FlatEnds(Tail(js), items, s)

Ends(items, s, i) ==
    IF items = <<>> THEN <<i>> ELSE FlatEnds(ItemEnds(Head(items), s, i), Tail(items), s)

NoMatch == [start |-> 0, gs |-> 0, end |-> 0]

\* A pattern is pre followed by its one capture group grp, which ends it.
\* The first of the ends js of pre from which grp matches, as a match from i.
RECURSIVE GroupFrom(_, _, _, _)
GroupFrom(p, s, i, js) ==
    IF js = <<>> THEN NoMatch
    ELSE LET ks == Ends(p.grp, s, Head(js))
         IN  IF ks # <<>> THEN [start |-> i, gs |-> Head(js), end |-> ks[1]]
             ELSE GroupFrom(p, s, i, Tail(js))

\* the match of the pattern that starts at position i, or NoMatch
MatchAt(p, s, i) == GroupFrom(p, s, i, Ends(p.pre, s, i))

\* The characters a match of items can begin with; items begins with an item
\* that takes at least one character (every pattern of _FIELD_PATTERNS does).
RECURSIVE FirstChars(_), AltFirstChars(_)
FirstChars(items) ==
    IF Head(items).t = "cls" THEN Head(items).set
    ELSE IF Head(items).t = "lit" THEN IgnoreCase({Head(items).s[1]})
    ELSE AltFirstChars(Head(items).alts)

AltFirstChars(alts) ==
    IF alts = <<>> THEN {} ELSE FirstChars(Head(alts)) \cup AltFirstChars(Tail(alts))

\* The leftmost match from position i on, where first = FirstChars(p.pre):
\* no match starts at a character outside first.
RECURSIVE SearchFrom(_, _, _, _)
SearchFrom(p, first, s, i) ==
    LET starts == {j \in i..Len(s) : s[j] \in first}
    IN  IF starts = {} THEN NoMatch
        ELSE LET j == MinOf(starts)
                 m == MatchAt(p, s, j)
             IN  IF m # NoMatch THEN m ELSE SearchFrom(p, first, s, j + 1)

\* re.search(pattern, s, flags=re.IGNORECASE)
Search(p, s) == SearchFrom(p, FirstChars(p.pre), s, 1)

Group1(m, s) == SubSeq(s, m.gs, m.end - 1)      \* match.group(1)

Group0(m, s) == SubSeq(s, m.start, m.end - 1)   \* match.group(0)

Colon == Cls({":", "uFF1A"}, FALSE, 1, 1)       \* [:<full-width colon>]

Dash == Cls({"-", "u2013"}, FALSE, 1, 1)        \* [-<en dash>]

NotNewline == Cls({"\n"}, TRUE, 1, -1)          \* [^\n]+

\* [^\n<full-width comma><ideographic stop>,;<full-width semicolon>]+
PartyName == Cls({"\n", "uFF0C", "u3002", ",", ";", "uFF1B"}, TRUE, 1, -1)

\* [0-9]{4}[<year>\-/][0-9]{1,2}[<month>\-/][0-9]{1,2}<day>?
NumericDate ==
    <<Cls(Digits, FALSE, 4, 4), Cls({"u5E74", "-", "/"}, FALSE, 1, 1),
      Cls(Digits, FALSE, 1, 2), Cls({"u6708", "-", "/"}, FALSE, 1, 1),
      Cls(Digits, FALSE, 1, 2), Cls({"u65E5"}, FALSE, 0, 1)>>

\* [A-Za-z]{3,9}\s+\d{1,2},\s+\d{4}
MonthDate ==
    <<Cls(Letters, FALSE, 3, 9), WsPlus, Cls(DecimalDigits, FALSE, 1, 2),
      Cls({","}, FALSE, 1, 1), WsPlus, Cls(DecimalDigits, FALSE, 4, 4)>>

\* words separated by sep, as in Date\s*of\s*Signature
RECURSIVE Words(_, _)
Words(ws, sep) ==
    IF Len(ws) = 1 THEN Lit(ws[1]) ELSE Lit(ws[1]) \o <<sep>> \o Words(Tail(ws), sep)

PartyA == Words(<<<<"P", "a", "r", "t", "y">>, <<"A">>>>, WsStar)                          \* Party\s*A

PartyB == Words(<<<<"P", "a", "r", "t", "y">>, <<"B">>>>, WsStar)                          \* Party\s*B

TotalAmount == Words(<<<<"T", "o", "t", "a", "l">>, <<"A", "m", "o", "u", "n", "t">>>>, WsStar)                \* Total\s*Amount

AmountDue == Words(<<<<"A", "m", "o", "u", "n", "t">>, <<"D", "u", "e">>>>, WsStar)                    \* Amount\s*Due

DateOfSignature == Words(<<<<"D", "a", "t", "e">>, <<"o", "f">>, <<"S", "i", "g", "n", "a", "t", "u", "r", "e">>>>, WsStar)  \* Date\s*of\s*Signature

SignedOn == Words(<<<<"S", "i", "g", "n", "e", "d">>, <<"o", "n">>>>, WsStar)                      \* Signed\s*on

EffectiveDate == Words(<<<<"E", "f", "f", "e", "c", "t", "i", "v", "e">>, <<"D", "a", "t", "e">>>>, WsStar)            \* Effective\s*Date

EffectiveAsOf == Words(<<<<"e", "f", "f", "e", "c", "t", "i", "v", "e">>, <<"a", "s">>, <<"o", "f">>>>, WsPlus)      \* effective\s+as\s+of

ExpiryDate == Words(<<<<"E", "x", "p", "i", "r", "y">>, <<"D", "a", "t", "e">>>>, WsStar)                  \* Expiry\s*Date

TerminationDate == Words(<<<<"T", "e", "r", "m", "i", "n", "a", "t", "i", "o", "n">>, <<"D", "a", "t", "e">>>>, WsStar)        \* Termination\s*Date

ValidUntil == Words(<<<<"v", "a", "l", "i", "d">>, <<"u", "n", "t", "i", "l">>>>, WsPlus)                  \* valid\s+until

Pattern(pre, grp) == [pre |-> pre, grp |-> grp]

\* _FIELD_PATTERNS, in the order written
FIELD_PATTERNS ==
    [party_a |->
        <<Pattern(<<Alt(<<Lit(<<"u7532", "u65B9">>), PartyA>>), WsStar, Colon, WsStar>>, <<PartyName>>),
          Pattern(PartyA \o <<WsStar, Dash, WsStar>>, <<NotNewline>>)>>,
     party_b |->
        <<Pattern(<<Alt(<<Lit(<<"u4E59", "u65B9">>), PartyB>>), WsStar, Colon, WsStar>>, <<PartyName>>),
          Pattern(PartyB \o <<WsStar, Dash, WsStar>>, <<NotNewline>>)>>,
     contract_amount |->
        <<Pattern(<<Alt(<<Lit(<<"u5408", "u540C", "u91D1", "u989D">>), TotalAmount, AmountDue>>), WsStar, Colon, WsStar>>,
                  <<NotNewline>>),
          Pattern(<<Alt(<<Lit(<<"u91D1", "u989D">>), Lit(<<"p", "a", "y", "m", "e", "n", "t">>)>>), WsStar,
                    Alt(<<Lit(<<"u4E3A">>), Lit(<<"i", "s">>)>>), WsStar>>,
                  <<NotNewline>>)>>,
     sign_date |->
        <<Pattern(<<Alt(<<Lit(<<"u7B7E", "u7F72", "u65E5", "u671F">>), DateOfSignature>>), WsStar, Colon, WsStar>>,
                  NumericDate),
          Pattern(SignedOn \o <<WsStar, Cls({":", "uFF1A"}, FALSE, 0, 1), WsStar>>, MonthDate),
          Pattern(DateOfSignature \o <<WsStar, Colon, WsStar>>, MonthDate)>>,
     effective_date |->
        <<Pattern(<<Alt(<<Lit(<<"u751F", "u6548", "u65E5", "u671F">>), EffectiveDate>>), WsStar, Colon, WsStar>>,
                  NumericDate),
          Pattern(EffectiveAsOf \o <<WsStar>>, MonthDate),
          Pattern(EffectiveDate \o <<WsStar, Colon, WsStar>>, MonthDate)>>,
     termination_date |->
        <<Pattern(<<Alt(<<Lit(<<"u7EC8", "u6B62", "u65E5", "u671F">>), ExpiryDate>>), WsStar, Colon, WsStar>>,
                  NumericDate),
          Pattern(ValidUntil \o <<WsStar>>, MonthDate),
          Pattern(<<Alt(<<ExpiryDate, TerminationDate>>), WsStar, Colon, WsStar>>, MonthDate)>>]

\* _search_patterns without the break: the last pattern that matches decides
RECURSIVE SearchPatternsNoBreak(_, _, _, _, _)
SearchPatternsNoBreak(res, text, key, patterns, n) ==
    IF n > Len(patterns) THEN res
    ELSE LET m == Search(patterns[n], text)
             upd == IF m # NoMatch THEN Update(res, key, Group1(m, text), Group0(m, text))
                    ELSE res
         IN  SearchPatternsNoBreak(upd, text, key, patterns, n + 1)

\* _search_patterns, from pattern number n on
RECURSIVE SearchPatterns(_, _, _, _, _)
SearchPatterns(res, text, key, patterns, n) ==
    IF n > Len(patterns) THEN res
    ELSE LET m == Search(patterns[n], text)
         IN  IF m # NoMatch THEN Update(res, key, Group1(m, text), Group0(m, text))
             ELSE SearchPatterns(res, text, key, patterns, n + 1)

\* ------------------------------------------------------------------ inputs

\* The markdown segments a caller passes: strings, mappings, and other values.
SegPool ==
    { IntSeg,                                                   \* 5
      MapSeg(Absent, Absent),                                   \* {"foo": "x"}
      MapSeg(NonStr, Absent),                                   \* {"markdown_text": 5}
      MapSeg(<<"|", " ", "u4E59", "u65B9", " ", "|", " ", "W", " ", "|">>, <<"u4E59", "u65B9", ":", " ", "V">>),                    \* both keys hold a str
      StrSeg(<<"\n", "|", " ", "u7532", "u65B9", " ", "|", " ", "X", " ", "|", "\n", "|", " ", "u7532", "u65B9", " ", "|", " ", "Y", " ", "|", "\n", "u7532", "u65B9", " ", "|", " ", "Z">>),
      StrSeg(<<"|", " ", "u7532", "u65B9", " ", "|", " ", "X", " ", "|", "\n", "|", " ", "u4E59", "u65B9", " ", "|", " ", "Y", " ", "|">>),
      StrSeg(<<"|", " ", "u7532", "u65B9", " ", "|", " ", "u4E59", "u65B9", " ", "|", " ", "u5408", "u540C", "u91D1", "u989D", " ", "|", "\n", "|", " ", "X", " ", "|", " ", " ", "|", " ", "Z", " ", "|">>),
      StrSeg(<<"|", " ", "P", "a", "r", "t", "y", " ", "A", " ", "|", " ", "E", "x", "p", "i", "r", "y", " ", "D", "a", "t", "e", " ", "|", " ", "T", "e", "r", "m", "i", "n", "a", "t", "i", "o", "n", " ", "D", "a", "t", "e", " ", "|", "\n", "|", " ", "P", " ", "|", " ", "D", "1", " ", "|", " ", "D", "2", " ", "|">>),
      StrSeg(<<"u7532", "u65B9", ":", " ", "A", ",", " ", "B", "\n", "T", "o", "t", "a", "l", " ", "A", "m", "o", "u", "n", "t", ":", " ", "U", "S", "D", " ", "9", " ", "\n", "P", "a", "r", "t", "y", " ", "B", ":">>),
      StrSeg(<<"F", "o", "o", "\n", "D", "a", "t", "e", " ", "o", "f", " ", "S", "i", "g", "n", "a", "t", "u", "r", "e", ":", " ", "M", "a", "r", "c", "h", "\n", "1", "8", ",", " ", "2", "0", "2", "4", " ", "x">>),
      StrSeg(<<"P", "a", "r", "t", "y", " ", "A", ":", " ", ",", "\n", "P", "a", "r", "t", "y", " ", "A", " ", "-", " ", "B", "a", "r">>),
      StrSeg(<<"|", " ", "u7532", "u65B9", " ", "|", "\n", "|", "|", "\n", "|", " ", "u7B7E", "u7F72", "u65E5", "u671F", " ", "|", " ", "2", "0", "2", "4", "-", "1", "-", "2", " ", "|", "\n", "u7B7E", "u7F72", "u65E5", "u671F", ":", " ", "2", "0", "2", "4", "u5E74", "5", "u6708", "1", "u65E5">>),
      \* {"markdown_text": None, "markdown": ...}
      MapSeg(None, <<"u017F", "i", "g", "n", "e", "d", " ", "o", "n", ":", " ", "M", "a", "K", "u0131", " ", "uFF11", "uFF18", ",", " ", "u0662", "u0660", "u0662", "u0664", "\n", "E", "f", "f", "e", "c", "t", "u0130", "v", "e", " ", "D", "a", "t", "e", ":", " ", "2", "0", "2", "4", "-", "0", "1", "-", "uFF10", "2">>) }

\* every sequence of at most n segments of the pool
RECURSIVE SegLists(_)
SegLists(n) ==
    IF n = 0 THEN {<<>>}
    ELSE SegLists(n - 1) \cup {Append(q, s) : q \in {x \in SegLists(n - 1) : Len(x) = n - 1}, s \in SegPool}

\* the str values a segment holds
SegTexts(seg) == {v \in {seg.text, seg.markdown_text, seg.markdown} : IsStr(v)}

\* the labels that are a cell of some line of some text of the segments
HeldLabels(ss) ==
    UNION {UNION {UNION {{Lower(Parts(SplitLines(t)[l])[c]) :
                             c \in 1..Len(Parts(SplitLines(t)[l]))} :
                         l \in 1..Len(SplitLines(t))} :
                  t \in SegTexts(ss[i])} :
           i \in 1..Len(ss)} \cap AllHeaders

\* the labels of q that are in held, or those that are not, in the order of q
Choose(q, held, in) == SelectSeq(q, LAMBDA x : (Lower(x) \in held) = in)

\* One order of the labels of a key for every order of those that are held;
\* a label that is no cell of any line is never found in a header row, and
\* a run does not tell where in the order it stands.
HeldOrders(q, held) == {p \o Choose(q, held, FALSE) : p \in Perms(Choose(q, held, TRUE))}

\* the iteration orders of _TABLE_HEADERS the runs on the segments tell apart
OrdersFor(ss) == OrderDicts([k \in KeySet |-> HeldOrders(TABLE_HEADERS[k], HeldLabels(ss))])

\* ------------------------------------------------------------- the program

NoDict == [k \in KeySet |-> None]

\* the outcome of a call: none yet, a dict returned, or the TypeError raised
NoOutcome == [status |-> "none", fields |-> NoDict]

Returned(d) == [status |-> "dict", fields |-> d]

Raised == [status |-> "TypeError", fields |-> NoDict]

\* run_contract_ocr has not been called
OcrNoOutcome == [status |-> "none", fields |-> NoDict, markdown |-> <<>>, raw |-> <<>>]

OcrIdle ==
    /\ opc = "start"
    /\ pipeline = "none"
    /\ ri = 0
    /\ markdown_segments = <<>>
    /\ raw_payloads = <<>>
    /\ closes = 0
    /\ exc = "none"
    /\ events = <<>>
    /\ extracted_fields = NoDict
    /\ wi = 0
    /\ oret = OcrNoOutcome

\* extract_contract_fields has not been called
Idle ==
    /\ arg = <<>>
    /\ call = "none"
    /\ pc = "idle"
    /\ texts = <<>>
    /\ combined = <<>>
    /\ result = NewResult
    /\ bi = 0
    /\ li = 0
    /\ ki = 0
    /\ ret = NoOutcome
    /\ prev = NoOutcome

Init ==
    /\ segs \in SegLists(MaxSegs)
    /\ hdrOrder \in OrdersFor(segs)
    /\ arg = <<>>
    /\ call = "none"
    /\ pc = "idle"
    /\ texts = <<>>
    /\ combined = <<>>
    /\ result = NewResult
    /\ bi = 0
    /\ li = 0
    /\ ki = 0
    /\ ret = NoOutcome
    /\ prev = NoOutcome
    /\ results = <<>>
    /\ input_paths = <<>>
    /\ output_dir = "falsy"
    /\ OcrIdle

\* lines = markdown_text.splitlines() of text number b
Lines(b) == SplitLines(texts[b])

\* the first text from number b on that has a line, 0 if there is none
FirstText(ts, b) ==
    LET with == {x \in b..Len(ts) : SplitLines(ts[x]) # <<>>}
    IN  IF with = {} THEN 0 ELSE MinOf(with)

\* the loops of lines 180 and 133 move on from line l of text b of ts
Advance(ts, b, l) ==
    IF b >= 1 /\ b <= Len(ts) /\ l + 1 <= Len(SplitLines(ts[b]))
    THEN pc' = "row" /\ bi' = b /\ li' = l + 1 /\ ki' = 0
    ELSE IF FirstText(ts, b + 1) # 0
    THEN pc' = "row" /\ bi' = FirstText(ts, b + 1) /\ li' = 1 /\ ki' = 0
    ELSE pc' = "fallback" /\ bi' = 0 /\ li' = 0 /\ ki' = 1

\* texts = _normalise_markdown_segments(markdown_segments), when it returns
NormalisedTexts(a) == NormaliseMarkdownSegments(a).texts

\* lines 174-177 of a call with argument a
Enter(a) ==
    /\ arg' = a
    /\ prev' = ret
    /\ IF NormaliseMarkdownSegments(a).raised
       THEN /\ ret' = Raised
            /\ pc' = "idle"
            /\ UNCHANGED <<texts, combined, result, bi, li, ki>>
       ELSE /\ texts' = NormalisedTexts(a)
            /\ combined' = Join(NormalisedTexts(a))
            /\ result' = NewResult
            /\ ret' = NoOutcome
            /\ Advance(NormalisedTexts(a), 0, 0)
    /\ UNCHANGED segs

\* extract_contract_fields(segs) is called
Call ==
    /\ pc = "idle" /\ call = "none"
    /\ call' = "first"
    /\ Enter(segs)
    /\ UNCHANGED <<hdrOrder, ocrVars>>

\* it is called once more with the same list, in the same process
CallAgain ==
    /\ pc = "idle" /\ call = "first"
    /\ call' = "same"
    /\ Enter(segs)
    /\ UNCHANGED <<hdrOrder, ocrVars>>

\* It is called once more with the same list in another process: the module
\* is imported anew, lines 77-84 build the label sets again, and the hashes
\* of that process (PYTHONHASHSEED) give each set its iteration order.  A
\* process with the orders of the first one runs as CallAgain does; this
\* one has another order for some set.
CallAnew ==
    /\ pc = "idle" /\ call = "first"
    /\ call' = "anew"
    /\ hdrOrder' \in OrdersFor(segs) \ {hdrOrder}
    /\ Enter(segs)
    /\ UNCHANGED ocrVars

\* it is called once more with the one string the texts of the list join to
CallJoined ==
    /\ pc = "idle" /\ call = "first" /\ ret.status = "dict"
    /\ call' = "joined"
    /\ Enter(<<StrSeg(Join(NormaliseMarkdownSegments(segs).texts))>>)
    /\ UNCHANGED <<hdrOrder, ocrVars>>

\* the line the table scan is at, and its cells
CurLine == Lines(bi)[li]

CurRow == ParseMarkdownTable(CurLine)

\* lines 134-143: a line that is no table row is passed over, a table row
\* goes through the row-oriented mode
RowMode ==
    /\ pc = "row"
    /\ IF NotRow(CurRow)
       THEN UNCHANGED result /\ Advance(texts, bi, li)
       ELSE /\ result' = RowKeys(result, hdrOrder, CurRow, CurLine, 1)
            /\ pc' = "header"
            /\ UNCHANGED <<bi, li, ki>>
    /\ UNCHANGED <<segs, hdrOrder, arg, call, texts, combined, ret, prev, ocrVars>>

\* lines 145-153: the header/data mode, then on to the next line
HeaderMode ==
    /\ pc = "header"
    /\ result' = IF HeaderGuard(li, CurRow)
                 THEN HeaderKeys(result, hdrOrder, LowerCells(CurRow), Lines(bi), li, 1)
                 ELSE result
    /\ Advance(texts, bi, li)
    /\ UNCHANGED <<segs, hdrOrder, arg, call, texts, combined, ret, prev, ocrVars>>

\* the fallback without the test of line 185
FallbackKeyAlways(res, text, key) == SearchPatterns(res, text, key, FIELD_PATTERNS[key], 1)

\* lines 185-187 for one key
FallbackKey(res, text, key) ==
    IF Truthy(res.fields[key]) THEN res
    ELSE SearchPatterns(res, text, key, FIELD_PATTERNS[key], 1)

\* the loop variable text of line 180 in the place of combined
FallbackLoopText == IF texts = <<>> THEN combined ELSE texts[Len(texts)]

\* the text line 187 hands to _search_patterns
FallbackText == combined

\* one round of the loop of line 184
Fallback ==
    /\ pc = "fallback"
    /\ ki <= Len(Keys)
    /\ result' = FallbackKey(result, FallbackText, Keys[ki])
    /\ ki' = ki + 1
    /\ UNCHANGED <<segs, hdrOrder, arg, call, pc, texts, combined, bi, li, ret, prev, ocrVars>>

\* line 189
Return ==
    /\ pc = "fallback"
    /\ ki > Len(Keys)
    /\ ret' = Returned(ToDict(result))
    /\ pc' = "idle"
    /\ UNCHANGED <<segs, hdrOrder, arg, call, texts, combined, result, bi, li, ki, prev, ocrVars>>

\* _extract_from_tables on the lines of one text, from line number l on
RECURSIVE ScanLines(_, _, _, _)
ScanLines(res, ord, lines, l) ==
    IF l > Len(lines) THEN res
    ELSE LET row == ParseMarkdownTable(lines[l])
             rowed == IF NotRow(row) THEN res ELSE RowKeys(res, ord, row, lines[l], 1)
             upd == IF ~NotRow(row) /\ HeaderGuard(l, row)
                    THEN HeaderKeys(rowed, ord, LowerCells(row), lines, l, 1)
                    ELSE rowed
         IN  IF upd = res THEN ScanLines(res, ord, lines, l + 1)
             ELSE ScanLines(upd, ord, lines, l + 1)

\* _extract_from_tables(markdown_text, result)
ExtractFromTables(res, ord, text) == ScanLines(res, ord, SplitLines(text), 1)

\* the loop of lines 180-181, from text number b on
RECURSIVE ScanTexts(_, _, _, _)
ScanTexts(res, ord, ts, b) ==
    IF b > Len(ts) THEN res
    ELSE LET upd == ExtractFromTables(res, ord, ts[b])
         IN  IF upd = res THEN ScanTexts(res, ord, ts, b + 1)
             ELSE ScanTexts(upd, ord, ts, b + 1)

\* the loop of lines 184-187, from key number k on
RECURSIVE FallbackKeys(_, _, _)
FallbackKeys(res, text, k) ==
    IF k > Len(Keys) THEN res
    ELSE LET upd == FallbackKey(res, text, Keys[k])
         IN  IF upd = res THEN FallbackKeys(res, text, k + 1)
             ELSE FallbackKeys(upd, text, k + 1)

\* extract_contract_fields(a) as one function of its argument, the label
\* sets iterated in the order ord
ExtractContractFields(a, ord) ==
    IF NormaliseMarkdownSegments(a).raised THEN Raised
    ELSE LET ts == NormaliseMarkdownSegments(a).texts
         IN  Returned(ToDict(FallbackKeys(ScanTexts(NewResult, ord, ts, 1), Join(ts), 1)))

Next == Call \/ CallAgain \/ CallAnew \/ CallJoined \/ RowMode \/ HeaderMode \/ Fallback \/ Return

Spec == Init /\ [][Next]_vars

\* a call is under way: the table scan or the fallback
InCall == pc \in {"row", "header", "fallback"}

\* the call has ended
Ended == pc = "idle" /\ call # "none"

\* a step of the call that is running
Step == RowMode \/ HeaderMode \/ Fallback \/ Return

\* A call that has begun runs on: Python executes the statements of the
\* function one after the other until it returns.  This is weak fairness of
\* Step, with InCall written for ENABLED <<Step>>_vars: a step is possible
\* exactly while a call runs, and every step moves pc, li or ki.
FairSpec == Spec /\ ([]<>(~InCall) \/ []<><<Step>>_vars)

\* ------------------------------------------------------- run_contract_ocr

MaxResults == 2

\* the value of an attribute or of a dict entry that may hold the Markdown:
\* kind "absent" is no such attribute or key, "None" a value that is neither
\* a str nor a Mapping; a str or a Mapping is held as a segment, and extra
\* tells that a Mapping has a key besides markdown_text and markdown
NoAttr == [kind |-> "absent", seg |-> IntSeg, extra |-> FALSE]

NoneVal == [kind |-> "None", seg |-> IntSeg, extra |-> FALSE]

StrVal(t) == [kind |-> "str", seg |-> StrSeg(t), extra |-> FALSE]

MapVal(mt, md, extra) == [kind |-> "Mapping", seg |-> MapSeg(mt, md), extra |-> extra]

\* The attribute json or res of a result: absent, no Mapping ("other"), or a
\* Mapping, of which the model holds
\*   markdown    the entry "markdown"
\*   page_index  "absent": no such key, "None": None, "int": a value int()
\*               takes, "bad": a value int() raises for
\*   input_path  "absent": no such key, "falsy": a falsy value, "str": a path,
\*               "bad": a truthy value no file name is made of (Path() or
\*               open() raises)
\*   more        whether it has further entries
\*   dumps       whether json.dump writes what the Mapping holds besides the
\*               str values of the entry "markdown": it is a dict whose keys
\*               and values, at every depth, are JSON values that UTF-8
\*               encodes
NoJson ==
    [kind |-> "absent", markdown |-> NoAttr, page_index |-> "absent",
     input_path |-> "absent", more |-> FALSE, dumps |-> TRUE]

OtherJson == [NoJson EXCEPT !.kind = "other"]

NoneJson == [NoJson EXCEPT !.kind = "None"]

MapJson(md, page, path, more, dumps) ==
    [kind |-> "Mapping", markdown |-> md, page_index |-> page,
     input_path |-> path, more |-> more, dumps |-> dumps]

\* one object that pipeline.predict yields
Res(md, js, rs) == [markdown |-> md, json |-> js, res |-> rs]

\* str.encode("utf-8") takes the str: it holds no surrogate
Utf8(text) == \A i \in 1..Len(text) : text[i] \notin Surrogates

\* the str values an attribute or entry holds are all taken by UTF-8
Utf8Val(v) ==
    /\ v.kind = "str" => Utf8(v.seg.text)
    /\ v.kind = "Mapping" => \A t \in SegTexts(v.seg) : Utf8(t)

\* bool(payload) of line 164
PayloadTruthy(p) ==
    \/ p.kind = "str" /\ p.seg.text # <<>>
    \/ p.kind = "Mapping" /\ (p.extra \/ p.seg.markdown_text # Absent \/ p.seg.markdown # Absent)

\* bool(result_dict) of line 167
DictTruthy(d) ==
    /\ d.kind = "Mapping"
    /\ (d.markdown.kind # "absent" \/ d.page_index # "absent" \/ d.input_path # "absent" \/ d.more)

\* _extract_markdown_from_result
ExtractMarkdownFromResult(r) ==
    IF r.markdown.kind \in {"str", "Mapping"} THEN r.markdown
    ELSE IF r.json.kind = "Mapping" /\ r.json.markdown.kind \in {"str", "Mapping"}
    THEN r.json.markdown
    ELSE NoneVal

\* _result_to_dict
ResultToDict(r) ==
    IF r.json.kind = "Mapping" THEN r.json
    ELSE IF r.res.kind = "Mapping" THEN r.res
    ELSE NoneJson

\* the results a run is tried with
ResultPool ==
    { Res(StrVal(<<>>), MapJson(StrVal(<<"u4E59", "u65B9", ":", " ", "W">>), "int", "str", FALSE, TRUE), NoJson),
      Res(MapVal(<<"|", " ", "u4E59", "u65B9", " ", "|", " ", "W", " ", "|">>, Absent, TRUE), OtherJson,
          MapJson(NoAttr, "int", "absent", FALSE, TRUE)),
      Res(MapVal(Absent, Absent, FALSE), MapJson(NoAttr, "absent", "absent", FALSE, TRUE),
          MapJson(NoAttr, "int", "absent", FALSE, TRUE)),
      Res(NoneVal, MapJson(StrVal(<<"P", "a", "r", "t", "y", " ", "B", ":", " ", "V">>), "None", "falsy", FALSE, TRUE), NoJson),
      Res(MapVal(NonStr, Absent, FALSE), NoJson, NoJson),
      Res(MapVal(None, <<"|", " ", "u7532", "u65B9", " ", "|", " ", "P", " ", "|">>, FALSE), NoJson, NoJson),
      Res(MapVal(Absent, None, FALSE), NoJson, NoJson),
      Res(StrVal(<<"|", " ", "t", "o", "t", "a", "l", " ", "a", "m", "o", "u", "n", "t", " ", "|", " ", "a", "m", "o", "u", "n", "t", " ", "|", "\n", "|", " ", "B", " ", "|", " ", "C", " ", "|">>), NoJson, NoJson),
      Res(MapVal(Absent, <<"u7532", "u65B9", ":", " ", "P">>, FALSE),
          MapJson(MapVal(<<>>, Absent, FALSE), "bad", "absent", FALSE, TRUE), NoJson),
      Res(NoAttr, MapJson(MapVal(Absent, Absent, FALSE), "absent", "absent", FALSE, TRUE), NoJson),
      Res(StrVal(<<"u7532", "u65B9", ":", " ", "Q">>), MapJson(NoneVal, "absent", "absent", FALSE, FALSE), NoJson),
      Res(NoAttr, OtherJson, MapJson(NoAttr, "int", "bad", TRUE, TRUE)),
      \* a lone surrogate in the value of a field
      Res(StrVal(<<"P", "a", "r", "t", "y", " ", "A", ":", " ", "X">> \o <<"uD800">>), NoJson, NoJson),
      \* a lone surrogate in text that no field takes
      Res(MapVal(<<"uDFFF">> \o <<"\n", "P", "a", "r", "t", "y", " ", "B", ":", " ", "V">>, Absent, FALSE), NoJson, NoJson),
      Res(NoneVal, MapJson(StrVal(<<"x">> \o <<"uDC80">>), "absent", "absent", FALSE, TRUE),
          NoJson) }

ResultLists(n) == UNION {[1..m -> ResultPool] : m \in 0..n}

\* the list extract_contract_fields is handed at line 175
SegmentsOf(ms) == [i \in 1..Len(ms) |-> ms[i].seg]

\* The lists of paths _resolve_inputs returns (lines 48-76): the names of
\* files that exist; uDCFF stands in a name for a byte that is no UTF-8.
InputPool ==
    { <<<<"i", "n", ".", "p", "n", "g">>>>,
      <<<<"i", "n", ".", "p", "n", "g">>, <<"uDCFF">> \o <<".", "p", "d", "f">>>> }

\* The state before run_contract_ocr is called: what predict will yield, the
\* iteration orders of the process, and the arguments, of which the list
\* with the name UTF-8 does not encode is tried with an output directory.
OcrInit ==
    /\ segs = <<>>
    /\ Idle
    /\ results \in ResultLists(MaxResults)
    /\ hdrOrder \in OrdersFor(SegmentsOf([i \in 1..Len(results) |->
                                               ExtractMarkdownFromResult(results[i])]))
    /\ \/ output_dir = "dir" /\ input_paths \in InputPool
       \/ output_dir \in {"falsy", "bad"} /\ input_paths = <<<<"i", "n", ".", "p", "n", "g">>>>
    /\ OcrIdle

\* an exception raised in the try block going to the caller at once
AfterRaiseNoFinally == "done"

\* where an exception raised in the try block of line 160 goes: the finally
\* block of line 169
AfterRaise == "finally"

\* line 156: the pipeline is constructed; lines 157-158
Construct ==
    /\ opc = "start"
    /\ opc' = "predict"
    /\ pipeline' = "open"
    /\ markdown_segments' = <<>>
    /\ raw_payloads' = <<>>
    /\ UNCHANGED <<exVars, results, ri, input_paths, output_dir, closes, exc, events, extracted_fields, wi, oret>>

\* lines 150-156: _resolve_inputs or PaddleOCRVL(...) raises, there is no
\* pipeline object
ConstructRaises ==
    /\ opc = "start"
    /\ opc' = "done"
    /\ exc' = "construct"
    /\ oret' = [OcrNoOutcome EXCEPT !.status = "raised"]
    /\ UNCHANGED <<exVars, pipeline, results, ri, markdown_segments, raw_payloads, input_paths, output_dir,
                   closes, events, extracted_fields, wi>>

\* line 161: pipeline.predict returns
Predict ==
    /\ opc = "predict"
    /\ opc' = "loop"
    /\ ri' = 1
    /\ UNCHANGED <<exVars, pipeline, results, markdown_segments, raw_payloads, input_paths, output_dir,
                   closes, exc, events, extracted_fields, wi, oret>>

\* line 161: pipeline.predict raises
PredictRaises ==
    /\ opc = "predict"
    /\ opc' = AfterRaise
    /\ exc' = "predict"
    /\ UNCHANGED <<exVars, pipeline, results, ri, markdown_segments, raw_payloads, input_paths, output_dir,
                   closes, events, extracted_fields, wi, oret>>

\* lines 162-168: one round of the loop over the results
Iterate ==
    /\ opc = "loop"
    /\ ri <= Len(results)
    /\ LET markdown_payload == ExtractMarkdownFromResult(results[ri])
           result_dict == ResultToDict(results[ri])
       IN  /\ markdown_segments' = IF PayloadTruthy(markdown_payload)
                                   THEN Append(markdown_segments, markdown_payload)
                                   ELSE markdown_segments
           /\ raw_payloads' = IF DictTruthy(result_dict)
                              THEN Append(raw_payloads, result_dict)
                              ELSE raw_payloads
    /\ ri' = ri + 1
    /\ UNCHANGED <<exVars, opc, pipeline, results, input_paths, output_dir, closes, exc, events,
                   extracted_fields, wi, oret>>

\* lines 162-168: the iterator of the results raises in the place of its
\* next item, or an attribute of the result raises when it is read
IterateRaises ==
    /\ opc = "loop"
    /\ opc' = AfterRaise
    /\ exc' = "iteration"
    /\ UNCHANGED <<exVars, pipeline, results, ri, markdown_segments, raw_payloads, input_paths, output_dir,
                   closes, events, extracted_fields, wi, oret>>

\* line 162: the results are exhausted
EndLoop ==
    /\ opc = "loop"
    /\ ri > Len(results)
    /\ opc' = "finally"
    /\ UNCHANGED <<exVars, pipeline, results, ri, markdown_segments, raw_payloads, input_paths, output_dir,
                   closes, exc, events, extracted_fields, wi, oret>>

\* lines 169-170: pipeline.close() returns, after which a pending exception
\* goes on to the caller
Close ==
    /\ opc = "finally"
    /\ pipeline' = "closed"
    /\ closes' = closes + 1
    /\ events' = Append(events, "close")
    /\ IF exc # "none"
       THEN opc' = "done" /\ oret' = [OcrNoOutcome EXCEPT !.status = "raised"]
       ELSE opc' = "extract" /\ UNCHANGED oret
    /\ UNCHANGED <<exVars, results, ri, markdown_segments, raw_payloads, input_paths, output_dir,
                   exc, extracted_fields, wi>>

\* lines 169-170: pipeline.close() is called and raises; its exception is
\* the one that goes on to the caller
CloseRaises ==
    /\ opc = "finally"
    /\ closes' = closes + 1
    /\ events' = Append(events, "close")
    /\ exc' = "close"
    /\ opc' = "done"
    /\ oret' = [OcrNoOutcome EXCEPT !.status = "raised"]
    /\ UNCHANGED <<exVars, pipeline, results, ri, markdown_segments, raw_payloads, input_paths,
                   output_dir, extracted_fields, wi>>

\* line 175: extract_contract_fields(markdown_segments) is called; it runs
\* by the steps RowMode, HeaderMode, Fallback and Return
Extract ==
    /\ opc = "extract"
    /\ opc' = "extracting"
    /\ events' = Append(events, "extract")
    /\ call' = "first"
    /\ Enter(SegmentsOf(markdown_segments))
    /\ UNCHANGED <<hdrOrder, pipeline, results, ri, markdown_segments, raw_payloads, input_paths,
                   output_dir, closes, exc, extracted_fields, wi, oret>>

\* lines 175-177: the call has ended; what it returned is extracted_fields,
\* what it raised goes on to the caller
Extracted ==
    /\ opc = "extracting"
    /\ pc = "idle"
    /\ IF ret.status = "TypeError"
       THEN /\ opc' = "done"
            /\ exc' = "extract"
            /\ oret' = [OcrNoOutcome EXCEPT !.status = "raised"]
            /\ UNCHANGED extracted_fields
       ELSE /\ opc' = IF output_dir = "falsy" THEN "return" ELSE "summary"
            /\ extracted_fields' = ret.fields
            /\ UNCHANGED <<exc, oret>>
    /\ UNCHANGED <<exVars, pipeline, results, ri, markdown_segments, raw_payloads, input_paths,
                   output_dir, closes, events, wi>>

\* lines 178-184 raise: Path(output_dir) or mkdir for an output_dir no
\* directory is made of, json.dump (line 121) for a path or a field value
\* that UTF-8 does not encode; by then the file is open, and is left cut off
SummaryRaises ==
    \/ output_dir = "bad"
    \/ \E i \in 1..Len(input_paths) : ~Utf8(input_paths[i])
    \/ \E k \in KeySet : extracted_fields[k] # None /\ ~Utf8(extracted_fields[k])

\* lines 177-184: summary.json is written
WriteSummary ==
    /\ opc = "summary"
    /\ IF SummaryRaises
       THEN /\ opc' = "done"
            /\ exc' = "write"
            /\ oret' = [OcrNoOutcome EXCEPT !.status = "raised"]
            /\ UNCHANGED <<events, wi>>
       ELSE /\ events' = Append(events, "summary.json")
            /\ opc' = "json"
            /\ wi' = 1
            /\ UNCHANGED <<exc, oret>>
    /\ UNCHANGED <<exVars, pipeline, results, ri, markdown_segments, raw_payloads, input_paths,
                   output_dir, closes, extracted_fields>>

\* lines 186-195 raise for the payload: Path(base_name) or open() for a
\* truthy input_path no file name is made of, int(page_index) for a
\* page_index that is no number, json.dump (line 121) for a payload that
\* holds a value that is no JSON value or a str UTF-8 does not encode; by
\* then _write_json_file may have opened the file, which is left cut off
JsonRaises(payload) ==
    \/ payload.input_path = "bad"
    \/ payload.page_index = "bad"
    \/ ~payload.dumps
    \/ ~Utf8Val(payload.markdown)

\* lines 185-195: one round of the loop over raw_payloads
WriteJson ==
    /\ opc = "json"
    /\ IF wi > Len(raw_payloads)
       THEN opc' = "md" /\ wi' = 1 /\ UNCHANGED <<events, exc, oret>>
       ELSE IF JsonRaises(raw_payloads[wi])
       THEN /\ opc' = "done"
            /\ exc' = "write"
            /\ oret' = [OcrNoOutcome EXCEPT !.status = "raised"]
            /\ UNCHANGED <<events, wi>>
       ELSE /\ events' = Append(events, "page.json")
            /\ wi' = wi + 1
            /\ UNCHANGED <<opc, exc, oret>>
    /\ UNCHANGED <<exVars, pipeline, results, ri, markdown_segments, raw_payloads, input_paths,
                   output_dir, closes, extracted_fields>>

\* payload.get(key) of line 199: None for a key the mapping lacks
Get(v) == IF v = Absent THEN None ELSE v

\* bool(v) of a value of a mapping: NonStr is truthy, None stands for the
\* falsy values that are no str
ValueTruthy(v) == v # None /\ v # <<>>

\* md_text of lines 198-201
MdText(p) ==
    IF p.kind = "Mapping"
    THEN IF ValueTruthy(Get(p.seg.markdown_text)) THEN p.seg.markdown_text
         ELSE Get(p.seg.markdown)
    ELSE p.seg.text

\* write_text of line 115 raises: TypeError for an md_text that is no str,
\* UnicodeEncodeError for a str UTF-8 does not encode
MarkdownRaises(md_text) == md_text = NonStr \/ ~Utf8(md_text)

\* lines 197-205: one round of the loop over markdown_segments
WriteMarkdown ==
    /\ opc = "md"
    /\ IF wi > Len(markdown_segments)
       THEN opc' = "return" /\ UNCHANGED <<wi, events, exc, oret>>
       ELSE IF ~ValueTruthy(MdText(markdown_segments[wi]))
       THEN wi' = wi + 1 /\ UNCHANGED <<opc, events, exc, oret>>
       ELSE IF MarkdownRaises(MdText(markdown_segments[wi]))
       THEN /\ opc' = "done"
            /\ exc' = "write"
            /\ oret' = [OcrNoOutcome EXCEPT !.status = "raised"]
            /\ UNCHANGED <<events, wi>>
       ELSE /\ events' = Append(events, "page.md")
            /\ wi' = wi + 1
            /\ UNCHANGED <<opc, exc, oret>>
    /\ UNCHANGED <<exVars, pipeline, results, ri, markdown_segments, raw_payloads, input_paths,
                   output_dir, closes, extracted_fields>>

\* lines 207-212
OcrReturn ==
    /\ opc = "return"
    /\ opc' = "done"
    /\ oret' = [status |-> "dict", fields |-> extracted_fields,
                markdown |-> markdown_segments, raw |-> raw_payloads]
    /\ UNCHANGED <<exVars, pipeline, results, ri, markdown_segments, raw_payloads, input_paths, output_dir,
                   closes, exc, events, extracted_fields, wi>>

\* the steps run_contract_ocr takes once it is called
OcrStep ==
    \/ Predict \/ PredictRaises \/ Iterate \/ IterateRaises \/ EndLoop \/ Close \/ CloseRaises
    \/ Extract \/ RowMode \/ HeaderMode \/ Fallback \/ Return \/ Extracted
    \/ WriteSummary \/ WriteJson \/ WriteMarkdown \/ OcrReturn

OcrNext == Construct \/ ConstructRaises \/ OcrStep

OcrSpec == OcrInit /\ [][OcrNext]_vars

\* the call is under way
OcrRunning == opc \notin {"start", "done"}

\* a call that is under way takes its next step: weak fairness of OcrStep,
\* with OcrRunning written for ENABLED <<OcrStep>>_vars
OcrFairSpec == OcrSpec /\ ([]<>(~OcrRunning) \/ []<><<OcrStep>>_vars)

\* ======================================================================
\* The claims
\* ======================================================================

\* the number of "|" in a line
Pipes(line) == Cardinality({i \in 1..Len(line) : line[i] = "|"})

\* ---------------------------------------------------------------- C1
\* C1: during one call, a field that holds a value keeps it: no later step
\* of the call gives the field another value.
C1_FirstMatchFinal ==
    [][\A k \in KeySet :
          (InCall /\ result.fields[k] # None) => result'.fields[k] = result.fields[k]]_vars

\* ---------------------------------------------------------------- C2
\* a str: a sequence of characters, which None is not
IsStrValue(v) == v # None /\ \A i \in 1..Len(v) : v[i] \notin {"None", "absent", "int"}

\* C2: a returned mapping has exactly the six keys, and every value is None
\* or a str that is not empty and has no whitespace at either end.
C2_ResultShape ==
    ret.status = "dict" =>
        /\ DOMAIN ret.fields = KeySet
        /\ \A k \in KeySet :
              \/ ret.fields[k] = None
              \/ /\ IsStrValue(ret.fields[k])
                 /\ ret.fields[k] # <<>>
                 /\ ret.fields[k][1] \notin Whitespace
                 /\ ret.fields[k][Len(ret.fields[k])] \notin Whitespace

\* a call returned a mapping in which a pattern matched text that is only
\* whitespace: the field is None, next to fields that hold values
C2_Witness ==
    /\ ret.status = "dict"
    /\ \E k \in KeySet : ret.fields[k] # None
    /\ \E k \in KeySet :
          /\ ret.fields[k] = None
          /\ \E n \in 1..Len(FIELD_PATTERNS[k]) :
                /\ Search(FIELD_PATTERNS[k][n], combined) # NoMatch
                /\ Strip(Group1(Search(FIELD_PATTERNS[k][n], combined), combined)) = <<>>

\* ---------------------------------------------------------------- C3
\* C3: the fallback never changes a field that holds a value when the
\* fallback begins or goes on: a field the table scan set keeps the table
\* value and its source to the end of the call.
C3_TableWins ==
    [][\A k \in KeySet :
          (pc = "fallback" /\ result.fields[k] # None)
             => /\ result'.fields[k] = result.fields[k]
                /\ result'.matched_sources[k] = result.matched_sources[k]]_vars

\* the fallback is at a key that the table scan set and that a pattern of
\* the key matches in the joined text
C3_Witness ==
    /\ pc = "fallback"
    /\ ki \in 1..Len(Keys)
    /\ result.fields[Keys[ki]] # None
    /\ \E n \in 1..Len(FIELD_PATTERNS[Keys[ki]]) :
          /\ Search(FIELD_PATTERNS[Keys[ki]][n], combined) # NoMatch
          /\ Strip(Group1(Search(FIELD_PATTERNS[Keys[ki]][n], combined), combined))
                \notin {<<>>, result.fields[Keys[ki]]}

\* ---------------------------------------------------------------- C4
\* a segment that is neither a str nor a mapping with a str under
\* markdown_text or markdown
Unsupported(seg) ==
    /\ seg.kind # "str"
    /\ ~(seg.kind = "Mapping" /\ (IsStr(seg.markdown_text) \/ IsStr(seg.markdown)))

\* C4: a call whose argument holds an unsupported segment ends with the
\* TypeError and returns no mapping.
C4_UnsupportedRaises ==
    (Ended /\ \E i \in 1..Len(arg) : Unsupported(arg[i])) => ret.status = "TypeError"

\* ---------------------------------------------------------------- C5
\* C5 as stated: a line goes through the table modes only if at least 3 of
\* its cells are not empty.
C5_ThreeCells == pc = "header" => Len(NonEmpty(Parts(CurLine))) >= 3

\* at least two "|", and a cell that is not empty
TwoPipes(line) ==
    /\ Pipes(line) >= 2
    /\ \E i \in 1..Len(Split(line, "|")) : Strip(Split(line, "|")[i]) # <<>>

\* C5 as amended: the table scan takes a line as a table row exactly if the
\* line has at least two "|" and a cell that is not empty; any other line is
\* passed over with the result as it was.
C5_TwoPipes ==
    [][pc = "row" =>
          IF TwoPipes(CurLine) THEN pc' = "header"
          ELSE pc' # "header" /\ result' = result]_vars

\* a pipe-framed line with two cells went through the row-oriented mode
\* and set a field
C5_Witness ==
    /\ pc = "header"
    /\ Len(CurRow) = 2
    /\ \E k \in KeySet : result.fields[k] = CurRow[2]

\* ---------------------------------------------------------------- C6
\* the keys with a label in the first cell of a row
RowKeysOf(row) ==
    {k \in KeySet : \E i \in 1..Len(TABLE_HEADERS[k]) :
                       Contains(Lower(TABLE_HEADERS[k][i]), Lower(row[1]))}

\* a text made of rows "| label | value |", every row of one key and no
\* two rows of the same key
LabelValueBlock(t) ==
    LET ls == SplitLines(t)
    IN  /\ ls # <<>>
        /\ \A i \in 1..Len(ls) :
              /\ ls[i] # <<>> /\ ls[i][1] = "|" /\ ls[i][Len(ls[i])] = "|" /\ Pipes(ls[i]) = 3
              /\ Len(NonEmpty(Parts(ls[i]))) = 2
              /\ Cardinality(RowKeysOf(NonEmpty(Parts(ls[i])))) = 1
        /\ \A i, j \in 1..Len(ls) :
              i # j => RowKeysOf(NonEmpty(Parts(ls[i]))) # RowKeysOf(NonEmpty(Parts(ls[j])))

\* C6: the row-oriented mode gives every key with a label in the first cell
\* of a row the second cell of the row, with the line as source; and a call
\* with one text of rows "| label | value |", one row a field, returns for
\* every such field the value cell of its row.
C6_RowOriented ==
    /\ pc = "header" /\ Len(CurRow) > 1 =>
          \A k \in RowKeysOf(CurRow) :
             /\ result.fields[k] = CurRow[2]
             /\ result.matched_sources[k] = Strip(CurLine)
    /\ Ended /\ ret.status = "dict" /\ Len(arg) = 1 /\ arg[1].kind = "str"
          /\ LabelValueBlock(arg[1].text) =>
          \A i \in 1..Len(SplitLines(arg[1].text)) :
             LET row == NonEmpty(Parts(SplitLines(arg[1].text)[i]))
             IN  \A k \in RowKeysOf(row) : ret.fields[k] = row[2]

\* ---------------------------------------------------------------- C7
\* the columns of a line: its cells between the pipes, the empty ones kept,
\* without the empty first and last part of a pipe-framed line
Columns(line) ==
    LET ps == Parts(line)
        from == IF ps[1] = <<>> THEN 2 ELSE 1
        to == IF ps[Len(ps)] = <<>> THEN Len(ps) - 1 ELSE Len(ps)
    IN  SubSeq(ps, from, to)

\* the columns of a header line that hold a label of key k
LabelColumns(line, k) ==
    {c \in 1..Len(Columns(line)) :
        \E i \in 1..Len(TABLE_HEADERS[k]) :
           Lower(Columns(line)[c]) = Lower(TABLE_HEADERS[k][i])}

\* the header/data mode has just run on the first line of the first text
\* that has lines, and the line after it is a table row
HeaderModeDone ==
    /\ pc = "row" /\ li = 2 /\ bi = FirstText(texts, 1)
    /\ HeaderGuard(1, ParseMarkdownTable(Lines(bi)[1]))
    /\ ~NotRow(ParseMarkdownTable(Lines(bi)[2]))

\* C7: after the header/data mode, a key with one label in the header row,
\* in column c, holds the cell of column c of the data row when that cell is
\* not empty, with the data line as source, and has no value from this mode
\* (it is as the row-oriented mode of the header line left it) when that
\* cell is empty or missing.
C7_HeaderData ==
    HeaderModeDone =>
        \A k \in KeySet :
           Cardinality(LabelColumns(Lines(bi)[1], k)) = 1 =>
              LET c == CHOOSE x \in LabelColumns(Lines(bi)[1], k) : TRUE
                  data == Columns(Lines(bi)[2])
                  before == RowKeys(NewResult, hdrOrder, ParseMarkdownTable(Lines(bi)[1]),
                                    Lines(bi)[1], 1)
              IN  IF c <= Len(data) /\ data[c] # <<>>
                  THEN /\ result.fields[k] = data[c]
                       /\ result.matched_sources[k] = Strip(Lines(bi)[2])
                  ELSE result.fields[k] = before.fields[k]

\* ---------------------------------------------------------------- C8
\* the numbers of the patterns of key k that match somewhere in text
Matching(k, text) ==
    {n \in 1..Len(FIELD_PATTERNS[k]) : Search(FIELD_PATTERNS[k][n], text) # NoMatch}

\* the match that decides key k: that of its first pattern that matches
Deciding(k, text) == Search(FIELD_PATTERNS[k][MinOf(Matching(k, text))], text)

\* the text from position i to the end of the line position i is in
LineRest(text, i) ==
    LET brk == {j \in i..Len(text) : text[j] = "\n"}
    IN  SubSeq(text, i, IF brk = {} THEN Len(text) ELSE MinOf(brk) - 1)

\* the text before the first comma, semicolon or ideographic full stop of s
BeforeStop(s) ==
    LET stop == {j \in 1..Len(s) : s[j] \in {",", ";", "uFF0C", "uFF1B", "u3002"}}
    IN  IF stop = {} THEN s ELSE SubSeq(s, 1, MinOf(stop) - 1)

\* the fallback is at a key that is not set
FallbackAtUnset == pc = "fallback" /\ ki <= Len(Keys) /\ ~Truthy(result.fields[Keys[ki]])

\* s is the beginning of t
IsPrefix(s, t) == Len(s) <= Len(t) /\ SubSeq(t, 1, Len(s)) = s

\* C8 as stated: the first pattern of the key that matches decides, and the
\* field becomes its first group, trimmed, which is the trailing text of
\* the line; with no match the result stays as it is.
C8_FirstPattern ==
    [][FallbackAtUnset =>
          LET k == Keys[ki]
          IN  IF Matching(k, combined) = {} THEN result' = result
              ELSE LET m == Deciding(k, combined)
                   IN  /\ result'.fields[k] = Strip(Group1(m, combined))
                       /\ result'.fields[k] = Strip(LineRest(combined, m.gs))]_vars

\* s without its whitespace
Squeezed(s) == SelectSeq(s, LAMBDA c : c \notin Whitespace)

\* the letters [A-Za-z] takes under re.IGNORECASE
PatternLetters == Letters \cup DOMAIN CaseFixes

\* a date in figures: four digits, a mark, one or two digits, a mark, one or
\* two digits and at most the mark of the day, with no whitespace
FigureDate(g) ==
    \E a \in 1..2, b \in 1..2, c \in 0..1 :
       /\ Len(g) = 6 + a + b + c
       /\ \A i \in 1..4 : g[i] \in Digits
       /\ g[5] \in {"u5E74", "-", "/"}
       /\ \A i \in 6..(5 + a) : g[i] \in Digits
       /\ g[6 + a] \in {"u6708", "-", "/"}
       /\ \A i \in (7 + a)..(6 + a + b) : g[i] \in Digits
       /\ c = 1 => g[Len(g)] = "u65E5"

\* a date with the name of the month: three to nine letters, one or two
\* digits, a comma and four digits, with whitespace after the letters and
\* after the comma and nowhere else
MonthNameDate(g) ==
    LET q == Squeezed(g)
        n == Cardinality({i \in 1..Len(q) : q[i] \in PatternLetters})
    IN  /\ n \in 3..9
        /\ Len(q) \in {n + 6, n + 7}
        /\ \A i \in 1..n : g[i] \in PatternLetters
        /\ \A i \in (n + 1)..(Len(q) - 5) : q[i] \in DecimalDigits
        /\ q[Len(q) - 4] = ","
        /\ \A i \in (Len(q) - 3)..Len(q) : q[i] \in DecimalDigits
        /\ g[n + 1] \in Whitespace
        /\ g[Len(g) - 4] \in Whitespace
        /\ \A i \in 2..Len(g) :
              g[i] \in Whitespace => g[i - 1] \in PatternLetters \cup Whitespace \cup {","}

\* C8 as amended: the first pattern of the key that matches decides; the
\* field becomes its first group, trimmed, with the trimmed match as source,
\* unless the trimmed group is empty, and then the result stays as it is,
\* as it does with no match.  The group is the rest of the line it begins
\* in for both patterns of contract_amount and for the second pattern of
\* party_a and of party_b, that rest up to the first comma, semicolon or
\* full stop mark for the first pattern of party_a and of party_b, and for a
\* date the date alone: for the first pattern of a date key a date in
\* figures, which lies in one line, for the other patterns a date with the
\* name of the month, whose whitespace can hold line breaks.
C8_FirstPatternNotEmpty ==
    [][FallbackAtUnset =>
          LET k == Keys[ki]
          IN  IF Matching(k, combined) = {} THEN result' = result
              ELSE LET m == Deciding(k, combined)
                       n == MinOf(Matching(k, combined))
                       g == Group1(m, combined)
                       rest == LineRest(combined, m.gs)
                   IN  /\ IF Strip(g) = <<>> THEN result' = result
                          ELSE /\ result'.fields = [result.fields EXCEPT ![k] = Strip(g)]
                               /\ result'.matched_sources[k] = Strip(Group0(m, combined))
                       /\ IF k = "contract_amount" THEN g = rest
                          ELSE IF k \in {"party_a", "party_b"}
                          THEN g = IF n = 1 THEN BeforeStop(rest) ELSE rest
                          ELSE IF n = 1 THEN FigureDate(g) /\ IsPrefix(g, rest)
                          ELSE MonthNameDate(g)]_vars

\* the key of the call's fallback whose first pattern matched only
\* whitespace while a later pattern of the key matches text
BlankFirst(k) ==
    /\ Matching(k, combined) # {}
    /\ Strip(Group1(Deciding(k, combined), combined)) = <<>>
    /\ Cardinality(Matching(k, combined)) > 1

\* the fallback is at an unset date key whose deciding group, a date with
\* the name of the month, runs over a line break, after it left unset a key
\* whose first pattern matched only whitespace while a later one matches
\* text
C8_Witness ==
    /\ FallbackAtUnset
    /\ Keys[ki] \in {"sign_date", "effective_date", "termination_date"}
    /\ Matching(Keys[ki], combined) # {}
    /\ \E i \in 1..Len(Group1(Deciding(Keys[ki], combined), combined)) :
          Group1(Deciding(Keys[ki], combined), combined)[i] = "\n"
    /\ \E j \in 1..(ki - 1) : result.fields[Keys[j]] = None /\ BlankFirst(Keys[j])

\* ---------------------------------------------------------------- C9
\* no line of a text of the argument is a table row
NoTableRows(ts) ==
    \A b \in 1..Len(ts) : \A l \in 1..Len(SplitLines(ts[b])) :
       NotRow(ParseMarkdownTable(SplitLines(ts[b])[l]))

\* C9: the fallback searches the texts joined by "\n": for a list without
\* table rows the call on the one joined string returns what the call on
\* the list returned.
C9_JoinedText ==
    /\ InCall => combined = Join(texts)
    /\ (Ended /\ call = "joined" /\ NoTableRows(NormaliseMarkdownSegments(segs).texts))
          => ret = prev

\* the call on the joined string of a list of two texts without table rows
\* has ended, and a field holds text of the second segment whose label ends
\* the first
C9_Witness ==
    /\ Ended /\ call = "joined" /\ ret.status = "dict"
    /\ Len(NormaliseMarkdownSegments(segs).texts) = 2
    /\ NoTableRows(NormaliseMarkdownSegments(segs).texts)
    /\ \E k \in KeySet :
          /\ ret.fields[k] # None
          /\ \A b \in 1..2 :
                FallbackKey(NewResult, NormaliseMarkdownSegments(segs).texts[b], k).fields[k]
                   # ret.fields[k]

\* --------------------------------------------------------------- C10
\* the call is at its first step after line 177
AtFirstStep ==
    \/ pc = "row" /\ bi = FirstText(texts, 1) /\ li = 1
    \/ pc = "fallback" /\ ki = 1 /\ FirstText(texts, 1) = 0

\* C10: a second call on the same list, in the same process or in another
\* one, ends as the first call did, with the same mapping or the same
\* error: the outcome is a function of the list alone.  Every call begins
\* with a result in which no field is set.
C10_SameTwice ==
    /\ (Ended /\ call \in {"same", "anew"}) => ret = prev
    /\ AtFirstStep => result = NewResult
\* --------------------------------------------------------------- C11
\* a label of the key is in the line, in either case
KeyNamed(k, line) ==
    \E i \in 1..Len(TABLE_HEADERS[k]) : Contains(Lower(TABLE_HEADERS[k][i]), Lower(line))

\* the text with every line that names no label of the key left empty
OtherLinesBlank(k, text) ==
    LET ls == SplitLines(text)
    IN  Join([l \in 1..Len(ls) |-> IF KeyNamed(k, ls[l]) THEN ls[l] ELSE <<>>])

\* the input that keeps, text by text and line by line, what names the key
OnlyKey(k, a) ==
    LET ts == NormaliseMarkdownSegments(a).texts
    IN  [b \in 1..Len(ts) |-> StrSeg(OtherLinesBlank(k, ts[b]))]

\* no fallback pattern of the key matches anywhere in the joined texts of a
NoPatternMatch(k, a) ==
    \A n \in 1..Len(FIELD_PATTERNS[k]) :
       Search(FIELD_PATTERNS[k][n], Join(NormaliseMarkdownSegments(a).texts)) = NoMatch

\* C11: the value of a field is the same for two inputs that agree on every
\* line that names a label of the field and on every span its patterns match:
\* where no pattern of the field matches, the call returns for the field what
\* it returns for the input whose other lines are empty.
C11_OtherKeysNoEffect ==
    (Ended /\ ret.status = "dict") =>
       \A k \in KeySet :
          (NoPatternMatch(k, arg) /\ NoPatternMatch(k, OnlyKey(k, arg))) =>
             ret.fields[k] = ExtractContractFields(OnlyKey(k, arg), hdrOrder).fields[k]

\* the result with every field but k unset
OnlyField(res, k) ==
    [fields |-> [x \in KeySet |-> IF x = k THEN res.fields[x] ELSE None],
     matched_sources |->
         [x \in DOMAIN res.matched_sources \cap {k} |-> res.matched_sources[x]]]

\* C11, second half: in every step of the table scan and of the fallback the
\* new value of a field is what the step gives when every other field is
\* unset before it.
C11_OwnValueOnly ==
    [][\A k \in KeySet :
          /\ (pc = "row" /\ ~NotRow(CurRow)) =>
                result'.fields[k] =
                   RowKeys(OnlyField(result, k), hdrOrder, CurRow, CurLine, 1).fields[k]
          /\ (pc = "header" /\ HeaderGuard(li, CurRow)) =>
                result'.fields[k] =
                   HeaderKeys(OnlyField(result, k), hdrOrder, LowerCells(CurRow),
                              Lines(bi), li, 1).fields[k]
          /\ (pc = "fallback" /\ ki <= Len(Keys)) =>
                result'.fields[k] =
                   IF k = Keys[ki]
                   THEN FallbackKey(OnlyField(result, k), combined, k).fields[k]
                   ELSE result.fields[k]]_vars

\* --------------------------------------------------------------- C12
\* every segment of a is a str or a mapping with a str under a recognised key
AllSupported(a) == \A i \in 1..Len(a) : ~Unsupported(a[i])

\* no line of the texts of a names a label of the key
NowhereNamed(k, a) ==
    LET ts == NormaliseMarkdownSegments(a).texts
    IN  \A b \in 1..Len(ts) : \A l \in 1..Len(SplitLines(ts[b])) :
           ~KeyNamed(k, SplitLines(ts[b])[l])

\* the running call is at a line of a text, or at a key or the end of the keys
InRange ==
    /\ pc \in {"row", "header"} => bi \in 1..Len(texts) /\ li \in 1..Len(Lines(bi))
    /\ pc = "fallback" => ki \in 1..(Len(Keys) + 1)

\* C12: a call on segments that are all strings or recognised containers
\* runs to its end and returns a mapping, never an error, and a field that
\* no line names and no pattern matches is unset in it.
C12_NeverRaises ==
    /\ [](InCall => InRange)
    /\ [](Ended /\ AllSupported(arg) =>
             /\ ret.status = "dict"
             /\ \A k \in KeySet :
                   (NowhereNamed(k, arg) /\ NoPatternMatch(k, arg)) => ret.fields[k] = None)
    /\ (InCall ~> Ended)

\* the first line of text b of the call is a header row with the label of
\* key k in column p, and the line after it is a row with fewer than p cells
ShortDataRow(b, k, p) ==
    LET ls == SplitLines(texts[b])
    IN  /\ Len(ls) >= 2
        /\ ~NotRow(ParseMarkdownTable(ls[1])) /\ ~NotRow(ParseMarkdownTable(ls[2]))
        /\ p <= Len(ParseMarkdownTable(ls[1]))
        /\ \E i \in 1..Len(TABLE_HEADERS[k]) :
              LowerCells(ParseMarkdownTable(ls[1]))[p] = Lower(TABLE_HEADERS[k][i])
        /\ Len(ParseMarkdownTable(ls[2])) < p

\* a call returned a mapping in which a field is unset whose header row had
\* a data row too short for its column, after passing a line that is no
\* table row and a header row with no line after it
C12_Witness ==
    /\ Ended /\ ret.status = "dict" /\ Len(texts) = 2
    /\ \E k \in KeySet : \E p \in 1..3 : ShortDataRow(1, k, p) /\ ret.fields[k] = None
    /\ Len(SplitLines(texts[2])) = 1
    /\ HeaderGuard(1, ParseMarkdownTable(SplitLines(texts[2])[1]))

\* --------------------------------------------------------------- C13
\* what the claim has a segment yield: a str itself, a mapping the str under
\* markdown_text when it has one and otherwise what is under markdown
Payload(seg) ==
    IF seg.kind = "str" THEN seg.text
    ELSE IF IsStr(seg.markdown_text) THEN seg.markdown_text
    ELSE seg.markdown

\* the normaliser returned the texts of the call with argument arg
Normalised == call # "none" /\ ret.status # "TypeError"

\* C13: the list the normaliser returns has one str for every segment of the
\* argument, in the order of the segments: the length of the argument, and
\* at every place what the segment there yields.
C13_OneTextPerSegment ==
    Normalised =>
       /\ Len(texts) = Len(arg)
       /\ \A i \in 1..Len(arg) : texts[i] = Payload(arg[i])

\* C13 on its supported segments: for an argument whose segments are all
\* strings or mappings with a str under a recognised key, the list has one
\* str for every segment, in order and unmodified.
C13_SupportedSegments ==
    (Normalised /\ AllSupported(arg)) =>
       /\ Len(texts) = Len(arg)
       /\ \A i \in 1..Len(arg) : IsStr(texts[i]) /\ texts[i] = Payload(arg[i])

\* --------------------------------------------------------------- C14
\* the columns of a row whose cell is a label of the key
KnownAt(row, k) ==
    {p \in 1..Len(row) :
        \E i \in 1..Len(TABLE_HEADERS[k]) : LowerCells(row)[p] = Lower(TABLE_HEADERS[k][i])}

\* line l of the lines is a row with a known label for a cell, and the line
\* after it is a row too
HeaderPair(lines, l) ==
    /\ l + 1 <= Len(lines)
    /\ ~NotRow(ParseMarkdownTable(lines[l])) /\ ~NotRow(ParseMarkdownTable(lines[l + 1]))
    /\ \E k \in KeySet : KnownAt(ParseMarkdownTable(lines[l]), k) # {}

\* C14: the header/data mode acts on the first line of a text alone.  After
\* the row-oriented mode of any later line the result is left as it is,
\* whatever the line and the line after it hold; at the first line of any
\* text, the first or a later one, a field with a label in the header row
\* takes the cell of the data row in the column of one of its labels.
C14_FirstLineOnly ==
    [][pc = "header" =>
          /\ li > 1 => result' = result
          /\ (li = 1 /\ HeaderPair(Lines(bi), 1)) =>
                LET next_row == ParseMarkdownTable(Lines(bi)[2])
                IN  \A k \in KeySet :
                       KnownAt(CurRow, k) \cap 1..Len(next_row) # {} =>
                          result'.fields[k] \in
                             {next_row[q] : q \in KnownAt(CurRow, k) \cap 1..Len(next_row)}]_vars

\* a call on two texts has ended: the first has a header row and a row after
\* it on later lines, which set a field through the row-oriented mode alone,
\* and the second begins with a header row whose data row gave a field its
\* value by the column
C14_Witness ==
    /\ Ended /\ ret.status = "dict" /\ Len(texts) = 2
    /\ ~HeaderPair(SplitLines(texts[1]), 1)
    /\ \E l \in 2..Len(SplitLines(texts[1])) : HeaderPair(SplitLines(texts[1]), l)
    /\ HeaderPair(SplitLines(texts[2]), 1)
    /\ \E k \in KeySet : \E q \in KnownAt(ParseMarkdownTable(SplitLines(texts[2])[1]), k) :
          /\ q > 1
          /\ q <= Len(ParseMarkdownTable(SplitLines(texts[2])[2]))
          /\ ret.fields[k] = ParseMarkdownTable(SplitLines(texts[2])[2])[q]
          /\ result.matched_sources[k] = Strip(SplitLines(texts[2])[2])

\* --------------------------------------------------------------- C15
\* the value and the source of key k are a cell of a table row of the texts
\* and that line, trimmed
FromTableLine(k) ==
    \E b \in 1..Len(texts) : \E l \in 1..Len(SplitLines(texts[b])) :
       LET line == SplitLines(texts[b])[l]
           row == ParseMarkdownTable(line)
       IN  /\ ~NotRow(row)
           /\ result.matched_sources[k] = Strip(line)
           /\ \E c \in 1..Len(row) : row[c] = result.fields[k]

\* the value and the source of key k are the first group and the whole of
\* the match that decides the key in the joined text, trimmed
FromMatch(k) ==
    LET ns == Matching(k, combined)
        m == Search(FIELD_PATTERNS[k][MinOf(ns)], combined)
    IN  /\ ns # {}
        /\ result.matched_sources[k] = Strip(Group0(m, combined))
        /\ result.fields[k] = Strip(Group1(m, combined))

\* the fallback is at an unset key whose deciding match has a first group
\* of whitespace alone
BlankUpdate ==
    /\ FallbackAtUnset
    /\ LET ns == Matching(Keys[ki], combined)
           m == Search(FIELD_PATTERNS[Keys[ki]][MinOf(ns)], combined)
       IN  ns # {} /\ Strip(Group1(m, combined)) = <<>>

\* C15: in every state the sources have an entry for a key exactly when the
\* field of the key is set, and the entry is the trimmed table line, or the
\* trimmed match, that the value of the field comes from; an update with a
\* value of whitespace alone changes neither the fields nor the sources.
C15_SourcesFollowFields ==
    /\ [](\A k \in KeySet :
             /\ (result.fields[k] # None) <=> (k \in DOMAIN result.matched_sources)
             /\ result.fields[k] # None => (FromTableLine(k) \/ FromMatch(k)))
    /\ [][BlankUpdate => result' = result]_vars

\* a call ended in which an update with whitespace alone left a key without
\* value and without source, next to a key with a value and the line it
\* comes from
C15_Witness ==
    /\ Ended /\ ret.status = "dict"
    /\ \E k \in KeySet :
          /\ result.fields[k] = None /\ k \notin DOMAIN result.matched_sources
          /\ Matching(k, combined) # {}
          /\ Strip(Group1(Deciding(k, combined), combined)) = <<>>
    /\ \E k \in DOMAIN result.matched_sources : FromTableLine(k)

\* --------------------------------------------------------------- C16
\* the table scan of the call is over and the fallback has not begun
ScanDone == pc = "fallback" /\ ki = 1

\* C16: the table scan ends with the same fields whatever the order in
\* which the label sets of _TABLE_HEADERS are iterated.
C16_OrderFree ==
    ScanDone =>
       \A ord \in HeaderOrders : result.fields = ScanTexts(NewResult, ord, texts, 1).fields


\* ---------------------------------------------------------------- C17

\* a pipeline object has been constructed
Constructed == pipeline # "none"

\* close() comes before every extraction and every file write
CloseFirst ==
    \A i \in 1..Len(events) :
        events[i] # "close" => \E j \in 1..(i - 1) : events[j] = "close"

\* nothing has been extracted or written
NothingDone == \A i \in 1..Len(events) : events[i] = "close"

\* a segment that is a non-empty str or a mapping
NonEmptyStrOrMapping(seg) == (seg.kind = "str" /\ seg.text # <<>>) \/ seg.kind = "Mapping"

\* run_contract_ocr is in its call of extract_contract_fields or past it
Handed == opc \in {"extracting", "summary", "json", "md", "return"} \/ oret.status = "dict"

\* C17: once the pipeline object is constructed, close() is called exactly
\* once on every path: never twice, once when run_contract_ocr has ended,
\* and a run that goes on does reach it, whether predict and the iteration
\* finish or raise.  The extraction and every file write come after close(),
\* and when predict, the iteration or close() raises nothing is extracted or
\* written.  The list handed to extract_contract_fields is the list of the
\* collected segments, each a non-empty str or a mapping, and the entry
\* fields of the dict returned is what that call of extract_contract_fields
\* returned, which is what the extractor gives for the entry markdown.
C17_CloseOnEveryPath ==
    /\ [](closes <= 1 /\ (opc = "done" /\ Constructed => closes = 1))
    /\ [](CloseFirst)
    /\ [](exc \in {"predict", "iteration", "close"} => NothingDone)
    /\ [](Handed =>
            /\ arg = SegmentsOf(markdown_segments)
            /\ \A i \in 1..Len(arg) : NonEmptyStrOrMapping(arg[i]))
    /\ [](oret.status = "dict" =>
            /\ oret.markdown = markdown_segments
            /\ ret = Returned(oret.fields)
            /\ ret = ExtractContractFields(SegmentsOf(oret.markdown), hdrOrder))
    /\ (Constructed ~> (closes = 1))

\* the iteration raised after a segment was collected: the pipeline was
\* closed once and nothing else was done
C17_Witness ==
    /\ opc = "done" /\ exc = "iteration" /\ oret.status = "raised"
    /\ markdown_segments # <<>>
    /\ closes = 1 /\ events = <<"close">>

\* a run that returned after writing the files of two pages
C17_Returned ==
    /\ opc = "done" /\ oret.status = "dict" /\ output_dir = "dir"
    /\ closes = 1
    /\ Len(events) >= 4 /\ events[1] = "close" /\ events[2] = "extract"
    /\ \E k \in KeySet : oret.fields[k] # None

=============================================================================
